---------------------------- MODULE Spec2Model ----------------------------
(***************************************************************************)
(* A model of Bio.PDB.molql: the residue-range syntax and its selector,    *)
(* the Lisp-like and JSON syntaxes, the symbol-table evaluator and the     *)
(* MolQL query facade, together with Bio.PDB.Dice.                         *)
(*                                                                         *)
(* Conventions.  A Python string is a sequence of one-character strings,   *)
(* so that the parsers can be modelled character by character.  Python's   *)
(* None is the record PyNone; an int n is PyInt(n).  A Python dict is a    *)
(* sequence of [key, val] records in the dict's iteration order.           *)
(***************************************************************************)
EXTENDS Integers, Sequences, FiniteSets, TLC

VARIABLES
    op,            \* the last operation performed and how it ended
    given,         \* how the input text was written: [items, tail]
    text,          \* the query text handed to a parser
    resRanges,     \* MolQL.resRanges (Bio/PDB/molql/__init__.py)
    tree,          \* the result of rangesBNF().parseString(text, True)
    structure,     \* the structure a query is applied to
    substructure,  \* what MolQL.__call__ returned
    symbols,       \* symbols._symbols, the Symbol Registry: the registered names
    expression,    \* MolQL.expression (Bio/PDB/molql/query.py)
    outcome,       \* what MolQL.apply returned or raised
    yielded,       \* the fragments pulled so far from the returned generator
    invoked,       \* the symbol implementations called so far, in call order
    earlier,       \* what an earlier apply of the same query gave, and the pulls from it
    dumped,        \* what MolQL.dumps returned or raised, and the format asked
    reparsed,      \* the expression of the query built from the dumped text
    redumped,      \* what dumping that second query returned or raised
    request,       \* the arguments of the last call on the query facade
    fp,            \* what has been written to the file-like object given to dump
    syntaxes,      \* syntax._syntaxes, the Syntax Registry: lower-cased name -> syntax
    registered     \* the syntaxes handed to register_syntax so far, in call order

rangeVars == <<given, text, resRanges, tree, substructure>>
evalVars == <<symbols, expression, outcome, yielded, invoked, earlier, dumped, reparsed,
              redumped>>
facadeVars == <<request, fp, syntaxes, registered>>
vars == <<op, structure, rangeVars, evalVars, facadeVars>>

(***************************************************************************)
(* Bounds of the model.                                                    *)
(***************************************************************************)
MaxItems == 2      \* ChainSpecs in one generated range text
MaxModels == 2     \* models in one structure

Unset == [unset |-> TRUE]

(***************************************************************************)
(* Python values.                                                          *)
(***************************************************************************)
PyNone == [none |-> TRUE, v |-> 0]
PyInt(n) == [none |-> FALSE, v |-> n]

\* Python 2 ordering of None and ints, as used by a chained comparison
\* a <= b: None sorts before every number.
py2_le(a, b) ==
    IF a.none THEN TRUE
    ELSE IF b.none THEN FALSE
    ELSE a.v <= b.v

Blank == <<" ">>

digits == {"0", "1", "2", "3", "4", "5", "6", "7", "8", "9"}
letters ==
    {"a", "b", "c", "d", "e", "f", "g", "h", "i", "j", "k", "l", "m",
     "n", "o", "p", "q", "r", "s", "t", "u", "v", "w", "x", "y", "z",
     "A", "B", "C", "D", "E", "F", "G", "H", "I", "J", "K", "L", "M",
     "N", "O", "P", "Q", "R", "S", "T", "U", "V", "W", "X", "Y", "Z"}
alphanums == letters \cup digits

DigitVal(c) ==
    CASE c = "0" -> 0 [] c = "1" -> 1 [] c = "2" -> 2 [] c = "3" -> 3
      [] c = "4" -> 4 [] c = "5" -> 5 [] c = "6" -> 6 [] c = "7" -> 7
      [] c = "8" -> 8 [] c = "9" -> 9

RECURSIVE DecimalValue(_)
\* int() of a string of decimal digits
DecimalValue(ds) ==
    IF ds = <<>> THEN 0
    ELSE 10 * DecimalValue(SubSeq(ds, 1, Len(ds) - 1)) + DigitVal(ds[Len(ds)])

\* int(t[0]) for a token matched by [+-]?[0-9]+
int(tok) ==
    IF tok[1] = "-" THEN 0 - DecimalValue(Tail(tok))
    ELSE IF tok[1] = "+" THEN DecimalValue(Tail(tok))
    ELSE DecimalValue(tok)

(***************************************************************************)
(* pyparsing primitives.  A parse result is [ok, loc, toks]: loc is the    *)
(* 1-based index of the next unread character.                             *)
(***************************************************************************)
NoMatch == [ok |-> FALSE, loc |-> 0, toks |-> <<>>]
Match(loc, toks) == [ok |-> TRUE, loc |-> loc, toks |-> toks]

RECURSIVE RunEnd(_, _, _)
\* the index after the longest run of characters of cs that starts at loc
RunEnd(cs, s, loc) ==
    IF loc <= Len(s) /\ s[loc] \in cs THEN RunEnd(cs, s, loc + 1) ELSE loc

\* pp.Word(cs)
Word_end(s, loc, end) ==
    IF end > loc THEN Match(end, <<SubSeq(s, loc, end - 1)>>) ELSE NoMatch
Word(cs, s, loc) == Word_end(s, loc, RunEnd(cs, s, loc))

\* pp.Literal(c) for a one-character literal, suppressed
Suppress(c, s, loc) ==
    IF loc <= Len(s) /\ s[loc] = c THEN Match(loc + 1, <<>>) ELSE NoMatch

(***************************************************************************)
(* The "range" grammar.                                                    *)
(***************************************************************************)
\* signedInt = pp.Regex("[+-]?[0-9]+") with int() as its parse action
signedInt_digits(s, loc, end) ==
    IF end > loc /\ s[end - 1] \in digits
    THEN Match(end, <<PyInt(int(SubSeq(s, loc, end - 1)))>>)
    ELSE NoMatch

signedInt(s, loc) ==
    signedInt_digits(s, loc,
        RunEnd(digits, s, IF loc <= Len(s) /\ s[loc] \in {"+", "-"} THEN loc + 1 ELSE loc))

\* inscode = pp.Word(pp.alphanums)
inscode(s, loc) == Word(alphanums, s, loc)

\* parseResi losing the insertion code
parseResi_DropsInsertionCode(t) == <<t[1], Blank>>

\* parseResi: one token becomes (t[0], " "), two become tuple(t)
parseResi(t) ==
    IF Len(t) = 1 THEN <<t[1], Blank>> ELSE <<t[1], t[2]>>

\* resi = (signedInt + pp.Optional(inscode)).leaveWhitespace()
resi_inscode(n, i) ==
    IF i.ok THEN Match(i.loc, <<parseResi(n.toks \o i.toks)>>)
    ELSE Match(n.loc, <<parseResi(n.toks)>>)

resi_signedInt(s, n) ==
    IF n.ok THEN resi_inscode(n, inscode(s, n.loc)) ELSE NoMatch

resi(s, loc) == resi_signedInt(s, signedInt(s, loc))

\* ResRange.__init__(chain_id, start=None, end=None)
ResRange(t) ==
    [chain_id |-> t[1],
     start |-> IF Len(t) >= 2 THEN t[2] ELSE <<PyNone, Blank>>,
     end |-> IF Len(t) >= 3 THEN t[3] ELSE <<PyNone, Blank>>]

\* parseRange: ResRange(*t)
parseRange(t) == ResRange(t)

\* pp.Optional(e): the match of e, or an empty match at loc
Optional(loc, r) == IF r.ok THEN r ELSE Match(loc, <<>>)

\* e1 + e2 once e1 has matched with tokens toks
And(toks, r) == IF r.ok THEN Match(r.loc, toks \o r.toks) ELSE NoMatch

\* pp.Suppress('-') + resi
dashResi(s, d) == IF d.ok THEN resi(s, d.loc) ELSE NoMatch

\* pp.Optional(pp.Suppress('-') + resi)
optEnd(s, loc) == Optional(loc, dashResi(s, Suppress("-", s, loc)))

\* pp.Suppress('.') + resi + pp.Optional(pp.Suppress('-') + resi)
dotResi_resi(s, b) == IF b.ok THEN And(b.toks, optEnd(s, b.loc)) ELSE NoMatch
dotResi(s, d) == IF d.ok THEN dotResi_resi(s, resi(s, d.loc)) ELSE NoMatch

\* pp.Optional(pp.Suppress('.') + resi + pp.Optional(pp.Suppress('-') + resi))
optStart(s, loc) == Optional(loc, dotResi(s, Suppress(".", s, loc)))

\* rangeExpr = (chain_id + Optional(...)).leaveWhitespace(), parse action parseRange
rangeExpr_rest(c, r) == Match(r.loc, <<parseRange(c.toks \o r.toks)>>)
rangeExpr_chain(s, c) == IF c.ok THEN rangeExpr_rest(c, optStart(s, c.loc)) ELSE NoMatch
rangeExpr(s, loc) == rangeExpr_chain(s, Word(alphanums, s, loc))

RECURSIVE moreRanges(_, _, _)
\* the ZeroOrMore(Suppress(",") + rangeExpr) of pp.delimitedList
moreRanges_item(s, loc, acc, r) ==
    IF r.ok THEN moreRanges(s, r.loc, acc \o r.toks) ELSE Match(loc, acc)
moreRanges_comma(s, loc, acc, d) ==
    IF d.ok THEN moreRanges_item(s, loc, acc, rangeExpr(s, d.loc)) ELSE Match(loc, acc)
moreRanges(s, loc, acc) == moreRanges_comma(s, loc, acc, Suppress(",", s, loc))

\* ranges = pp.delimitedList(rangeExpr)
rangesBNF_first(s, r) == IF r.ok THEN moreRanges(s, r.loc, r.toks) ELSE NoMatch
rangesBNF(s, loc) == rangesBNF_first(s, rangeExpr(s, loc))

\* ParserElement.parseString(s, parseAll): with parseAll the whole text has
\* to be consumed, without it a matching prefix is enough
parseString_end(s, parseAll, r) ==
    IF r.ok /\ (~parseAll \/ r.loc = Len(s) + 1)
    THEN [ok |-> TRUE, toks |-> r.toks]
    ELSE [ok |-> FALSE, toks |-> <<>>]
parseString_ranges(s, parseAll) == parseString_end(s, parseAll, rangesBNF(s, 1))

(***************************************************************************)
(* Structures: a structure is a sequence of models, a model [id, chains],  *)
(* a chain [id, residues], a residue [het, resseq, icode, atoms] and an    *)
(* atom [name].                                                            *)
(***************************************************************************)
Atom(name) == [name |-> name]
Residue(het, resseq, icode, atoms) ==
    [het |-> het, resseq |-> resseq, icode |-> icode, atoms |-> atoms]

AtomN == Atom(<<"N">>)
AtomCA == Atom(<<"C", "A">>)
AtomH == Atom(<<"H">>)
Atom1HB == Atom(<<"1", "H", "B">>)
AtomOH == Atom(<<"O", "H">>)

ChainA ==
    [id |-> <<"A">>,
     residues |-> << Residue(" ", 0, Blank, <<AtomN>>),
                     Residue(" ", 1, Blank, <<AtomN, AtomH, AtomCA>>),
                     Residue("W", 1, Blank, <<AtomOH>>),
                     Residue(" ", 2, <<"A">>, <<AtomCA, Atom1HB>>),
                     Residue(" ", 10, Blank, <<AtomOH, AtomN>>) >>]
ChainB ==
    [id |-> <<"B">>,
     residues |-> << Residue(" ", 1, Blank, <<AtomCA>>),
                     Residue(" ", 2, Blank, <<AtomH, AtomN>>),
                     Residue("H_GLC", 2, Blank, <<AtomCA>>) >>]

ChainLists == { <<ChainA>>, <<ChainA, ChainB>>, <<ChainB, ChainA>> }

\* models are numbered from 0 in structure order
Structures ==
    { [m \in 1..nm |-> [id |-> m - 1, chains |-> cl]] :
        nm \in 1..MaxModels, cl \in ChainLists }

(***************************************************************************)
(* Selectors.  A selector is a record; the accept_* operators dispatch on  *)
(* its class as Python's method lookup does.                               *)
(***************************************************************************)
\* Dice.ChainSelector(chain_id, start, end, model_id=0)
Dice_ChainSelector(chain_id, start, end) ==
    [class |-> "Dice.ChainSelector", chain_id |-> chain_id,
     start |-> start, end |-> end, model_id |-> 0, ranges |-> <<>>]

\* molql.ChainSelector(ranges)
molql_ChainSelector(ranges) ==
    [class |-> "molql.ChainSelector", chain_id |-> <<>>,
     start |-> 0, end |-> 0, model_id |-> 0, ranges |-> ranges]

RECURSIVE SkipClass(_, _, _)
SkipClass(cs, s, i) ==
    IF i <= Len(s) /\ s[i] \in cs THEN SkipClass(cs, s, i + 1) ELSE i

\* _hydrogen = re.compile("[123 ]*H.*"); _hydrogen.match(name)
hydrogen_at(name, i) == i <= Len(name) /\ name[i] = "H"
hydrogen_match(name) == hydrogen_at(name, SkipClass({"1", "2", "3", " "}, name, 1))

\* molql.ChainSelector defines no accept_model and inherits Select's, which
\* accepts every model
accept_model(select, model) ==
    IF select.class = "Dice.ChainSelector"
    THEN model.id = select.model_id
    ELSE TRUE

accept_chain(select, chain) ==
    IF select.class = "Dice.ChainSelector"
    THEN chain.id = select.chain_id
    ELSE \E i \in 1..Len(select.ranges) : chain.id = select.ranges[i].chain_id

\* residue.get_parent() is the chain the residue is listed under
accept_residue(select, chain, residue) ==
    IF residue.het # " " THEN FALSE
    ELSE IF select.class = "Dice.ChainSelector"
    THEN select.start <= residue.resseq /\ residue.resseq <= select.end
    ELSE \E i \in 1..Len(select.ranges) :
            LET r == select.ranges[i]
            IN  /\ chain.id = r.chain_id
                /\ py2_le(r.start[1], PyInt(residue.resseq))
                /\ py2_le(PyInt(residue.resseq), r.end[1])

accept_atom(select, atom) == ~hydrogen_match(atom.name)

(***************************************************************************)
(* Dice.extract_to_structure                                               *)
(***************************************************************************)
RECURSIVE FilterSeq(_, _)
\* the members of s, in order, that keep accepts (keep[i] for s[i])
FilterSeq(s, keep) ==
    IF s = <<>> THEN <<>>
    ELSE (IF keep[1] THEN <<Head(s)>> ELSE <<>>)
         \o FilterSeq(Tail(s), [i \in 1..(Len(s) - 1) |-> keep[i + 1]])

\* build_atom for each atom of the residue
build_residue(select, chain, res) ==
    [res EXCEPT !.atoms =
        FilterSeq(res.atoms, [i \in 1..Len(res.atoms) |-> accept_atom(select, res.atoms[i])])]

build_residues(select, chain, kept) ==
    [i \in 1..Len(kept) |-> build_residue(select, chain, kept[i])]

\* build_residue for each residue of the chain
build_chain(select, chain) ==
    [chain EXCEPT !.residues =
        build_residues(select, chain,
            FilterSeq(chain.residues,
                [i \in 1..Len(chain.residues) |->
                    accept_residue(select, chain, chain.residues[i])]))]

build_chains(select, kept) == [i \in 1..Len(kept) |-> build_chain(select, kept[i])]

\* build_chain for each chain of the model
\* (first, a build_model that builds every chain without asking accept_chain)
build_model_KeepsChains(select, model) ==
    [model EXCEPT !.chains = build_chains(select, model.chains)]
build_model(select, model) ==
    [model EXCEPT !.chains =
        build_chains(select,
            FilterSeq(model.chains,
                [i \in 1..Len(model.chains) |-> accept_chain(select, model.chains[i])]))]

build_models(select, kept) == [i \in 1..Len(kept) |-> build_model(select, kept[i])]

\* build_model for each model of the structure
extract_to_structure(struct, select) ==
    build_models(select,
        FilterSeq(struct, [i \in 1..Len(struct) |-> accept_model(select, struct[i])]))

(***************************************************************************)
(* MolQL of Bio/PDB/molql/__init__.py: the "range" query.                  *)
(***************************************************************************)
\* format.lower()
lower(format) ==
    CASE format = "RANGE" -> "range"
      [] format = "Range" -> "range"
      [] format = "JSON" -> "json"
      [] format = "MolQL" -> "molql"
      [] format = "Json" -> "json"
      [] format = "Auto" -> "auto"
      [] OTHER -> format

Formats == {"range", "Range", "json"}

\* MolQL.__init__(query, format): parseString(query) is called without parseAll
MolQL_init_parsed(r) ==
    IF r.ok THEN [raised |-> "", resRanges |-> r.toks]
    ELSE [raised |-> "ParseException", resRanges |-> <<>>]
MolQL_init_range(query, format) ==
    IF lower(format) = "range"
    THEN MolQL_init_parsed(parseString_ranges(query, FALSE))
    ELSE [raised |-> "ValueError", resRanges |-> <<>>]

\* MolQL.__call__(structure); resRanges is never None once constructed
MolQL_call_range(ranges, struct) ==
    extract_to_structure(struct, molql_ChainSelector(ranges))

(***************************************************************************)
(* Range texts.  A text is written from a list of ChainSpecs (chain id,    *)
(* optional start, optional end) followed by a tail; the tail is empty for *)
(* a well-formed text.                                                     *)
(***************************************************************************)
NoResi == [written |-> FALSE, n |-> 0, icode |-> <<>>]
Resi(n, icode) == [written |-> TRUE, n |-> n, icode |-> icode]
SpecChains == { <<"A">>, <<"B">> }
SpecResis == { Resi(0 - 1, <<>>), Resi(1, <<>>), Resi(2, <<"A">>), Resi(10, <<>>) }
ChainSpecs ==
    { [chain |-> c, start |-> NoResi, end |-> NoResi] : c \in SpecChains }
    \cup { [chain |-> c, start |-> b, end |-> e] :
             c \in SpecChains, b \in SpecResis, e \in SpecResis \cup {NoResi} }
ItemLists == UNION { [1..n -> ChainSpecs] : n \in 0..MaxItems }
Tails == { <<"-", "3">>, <<"-">>, <<".", "1">>, <<",">>, <<"-", "2", "-", "3">> }

DigitChar(d) ==
    CASE d = 0 -> "0" [] d = 1 -> "1" [] d = 2 -> "2" [] d = 3 -> "3"
      [] d = 4 -> "4" [] d = 5 -> "5" [] d = 6 -> "6" [] d = 7 -> "7"
      [] d = 8 -> "8" [] d = 9 -> "9"

RECURSIVE NatText(_)
NatText(n) == IF n < 10 THEN <<DigitChar(n)>> ELSE NatText(n \div 10) \o <<DigitChar(n % 10)>>
IntText(n) == IF n < 0 THEN <<"-">> \o NatText(0 - n) ELSE NatText(n)

ResiText(r) == IntText(r.n) \o r.icode
ChainSpecText(it) ==
    it.chain
    \o (IF it.start.written THEN <<".">> \o ResiText(it.start) ELSE <<>>)
    \o (IF it.end.written THEN <<"-">> \o ResiText(it.end) ELSE <<>>)

RECURSIVE ItemsText(_)
ItemsText(items) ==
    IF items = <<>> THEN <<>>
    ELSE IF Len(items) = 1 THEN ChainSpecText(items[1])
    ELSE ChainSpecText(items[1]) \o <<",">> \o ItemsText(Tail(items))

\* the inputs: every well-formed list, and the one-item lists (and the bare
\* chain id "1") followed by a tail
Givens ==
    { [items |-> il, tail |-> <<>>] : il \in ItemLists }
    \cup { [items |-> il, tail |-> tl] : il \in [1..1 -> ChainSpecs], tl \in Tails }
    \cup { [items |-> <<[chain |-> <<"1">>, start |-> NoResi, end |-> NoResi]>>,
            tail |-> <<"-", "2", "-", "3">>] }

GivenText(g) == ItemsText(g.items) \o g.tail

(***************************************************************************)
(* The operations on a range query.                                        *)
(***************************************************************************)
InitRange ==
    /\ given \in Givens
    /\ text = GivenText(given)
    /\ op = "init"
    /\ resRanges = Unset
    /\ tree = Unset
    /\ structure = Unset
    /\ substructure = Unset
    /\ symbols = Unset
    /\ expression = Unset
    /\ outcome = Unset
    /\ yielded = Unset
    /\ invoked = Unset
    /\ earlier = Unset
    /\ dumped = Unset
    /\ reparsed = Unset
    /\ redumped = Unset
    /\ request = Unset
    /\ fp = Unset
    /\ syntaxes = Unset
    /\ registered = Unset

Constructed(r) ==
    /\ op' = IF r.raised = "" THEN "constructed" ELSE r.raised
    /\ resRanges' = IF r.raised = "" THEN r.resRanges ELSE resRanges

\* query = MolQL(text, format)
Construct ==
    /\ op = "init"
    /\ \E format \in Formats : Constructed(MolQL_init_range(text, format))
    /\ UNCHANGED <<given, text, tree, structure, substructure, evalVars, facadeVars>>

\* substructure = query(structure)
Call ==
    /\ op = "constructed"
    /\ \E s \in Structures :
         /\ structure' = s
         /\ substructure' = MolQL_call_range(resRanges, s)
    /\ op' = "called"
    /\ UNCHANGED <<given, text, resRanges, tree, evalVars, facadeVars>>

\* tree = rangesBNF().parseString(text, True)
ParseAll ==
    /\ op = "init"
    /\ tree' = parseString_ranges(text, TRUE)
    /\ op' = "parsed"
    /\ UNCHANGED <<given, text, resRanges, structure, substructure, evalVars, facadeVars>>

NextRange == Construct \/ Call
SpecRange == InitRange /\ [][NextRange]_vars

NextRangeParse == ParseAll
SpecRangeParse == InitRange /\ [][NextRangeParse]_vars

(***************************************************************************)
(* Claims about the range syntax.                                          *)
(***************************************************************************)
IsSingleRange(g) ==
    /\ g.tail = <<>>
    /\ Len(g.items) = 1
    /\ g.items[1].start.written /\ g.items[1].start.icode = <<>>
    /\ g.items[1].end.written /\ g.items[1].end.icode = <<>>
    /\ g.items[1].start.n <= g.items[1].end.n

\* C3: for every structure, chain id c and integers s <= e, calling the
\* query parsed from the range text "c.s-e" returns exactly what direct
\* extraction with Dice.ChainSelector(c, s, e) returns (model 0 only).
C3_RangeQueryEqualsDiceExtraction ==
    (op = "called" /\ IsSingleRange(given)) =>
        substructure =
            extract_to_structure(structure,
                Dice_ChainSelector(given.items[1].chain,
                                   given.items[1].start.n, given.items[1].end.n))

\* the residue res of chain chainId in model modelId is in struct
Selected(struct, modelId, chainId, res) ==
    \E m \in 1..Len(struct) :
        /\ struct[m].id = modelId
        /\ \E c \in 1..Len(struct[m].chains) :
            /\ struct[m].chains[c].id = chainId
            /\ \E r \in 1..Len(struct[m].chains[c].residues) :
                LET got == struct[m].chains[c].residues[r]
                IN  /\ got.het = res.het
                    /\ got.resseq = res.resseq
                    /\ got.icode = res.icode

\* C4: an item written without an end selects every blank-hetero-flag
\* residue of its chain whose sequence number is >= the start, and an item
\* with neither start nor end every blank-hetero-flag residue of its chain.
C4_AbsentEndpointExcludesNothing ==
    (op = "called" /\ given.tail = <<>>) =>
        \A i \in 1..Len(given.items) :
            ~given.items[i].end.written =>
                \A m \in 1..Len(structure) :
                    \A c \in 1..Len(structure[m].chains) :
                        \A r \in 1..Len(structure[m].chains[c].residues) :
                            LET chain == structure[m].chains[c]
                                res == chain.residues[r]
                            IN  ( /\ chain.id = given.items[i].chain
                                  /\ res.het = " "
                                  /\ (given.items[i].start.written
                                        => res.resseq >= given.items[i].start.n) )
                                => Selected(substructure, structure[m].id, chain.id, res)

\* C5: a range query is constructed only when the whole text is well
\* formed; text with a second '-' or another malformed residue token is
\* rejected, never parsed up to a well-formed prefix.
C5_MalformedRangeTextIsRejected ==
    (op = "constructed") => rangesBNF(text, 1).loc = Len(text) + 1

ExpectedEndpoint(r) ==
    IF r.written
    THEN <<PyInt(r.n), IF r.icode = <<>> THEN Blank ELSE r.icode>>
    ELSE <<PyNone, Blank>>

ExpectedRange(it) ==
    [chain_id |-> it.chain,
     start |-> ExpectedEndpoint(it.start),
     end |-> ExpectedEndpoint(it.end)]

\* C6: parsing a comma-separated list of n well-formed ChainSpecs yields
\* exactly n range items in source order, each with its chain id, its
\* start (integer, insertion code or blank) or unbounded, and its end
\* likewise.
C6_RangeParseYieldsItems ==
    (op = "parsed" /\ given.tail = <<>> /\ Len(given.items) >= 1) =>
        /\ tree.ok
        /\ tree.toks = [i \in 1..Len(given.items) |-> ExpectedRange(given.items[i])]

C6_Witness ==
    /\ op = "parsed" /\ given.tail = <<>> /\ tree.ok
    /\ Len(given.items) >= 2 /\ Len(tree.toks) = Len(given.items)
    /\ given.items[1].end.written /\ given.items[1].start.icode # <<>>
    /\ ~given.items[2].start.written

(***************************************************************************)
(* Expressions (Bio/PDB/molql/syntax.py).  A literal is a tagged value; an *)
(* Expression holds its head and its args dict.  A dict key is itself a    *)
(* tagged value: IntObj(n) for a Python int, StrObj(s) for a string.       *)
(***************************************************************************)
NoneObj == [kind |-> "None"]
StrObj(s) == [kind |-> "str", s |-> s]
IntObj(n) == [kind |-> "int", n |-> n]
\* a float is m * 10^e with m not a multiple of 10 (0 is 0 * 10^0)
RECURSIVE FloatObj(_, _)
FloatObj(m, e) ==
    IF m = 0 THEN [kind |-> "float", m |-> 0, e |-> 0]
    ELSE IF m % 10 = 0 THEN FloatObj(m \div 10, e + 1)
    ELSE [kind |-> "float", m |-> m, e |-> e]
BoolObj(b) == [kind |-> "bool", b |-> b]
Expression(head, args) == [kind |-> "Expression", head |-> head, args |-> args]
Item(key, val) == [key |-> key, val |-> val]

\* the keys of a dict, in iteration order
keys(d) == [i \in 1..Len(d) |-> d[i].key]

\* d[key] = val on a dict: an existing key keeps its place
setitem(d, key, val) ==
    IF \E i \in 1..Len(d) : d[i].key = key
    THEN [i \in 1..Len(d) |-> IF d[i].key = key THEN Item(key, val) ELSE d[i]]
    ELSE Append(d, Item(key, val))

(***************************************************************************)
(* The Symbol Registry (symbols.py) and the one symbol of structure.py.    *)
(***************************************************************************)
atom_groups_name ==
    <<"s", "t", "r", "u", "c", "t", "u", "r", "e", ".", "g", "e", "n", "e", "r", "a", "t", "o", "r", ".", "a", "t", "o", "m", "-", "g", "r", "o", "u", "p", "s">>

\* symbols._symbols after the imports of query.py
registered_symbols == [name \in {atom_groups_name} |-> "atom_groups"]

Raised(type, at) == [status |-> "raised", type |-> type, at |-> at, invoked |-> <<>>]

(***************************************************************************)
(* structure.atom_groups: a generator function.  Calling it binds the      *)
(* parameters; the body runs when the generator is pulled.  run is         *)
(* [yields, raised]: the fragments yielded so far and the error that ended *)
(* the traversal ("" while it runs).                                       *)
(***************************************************************************)
AtomGroupsParams == 5    \* fragments, model_test, chain_test, residue_test, atom_test
Param(args, i) == IF i <= Len(args) THEN args[i] ELSE NoneObj
Bind(args) ==
    [fragments |-> Param(args, 1), model_test |-> Param(args, 2),
     chain_test |-> Param(args, 3), residue_test |-> Param(args, 4),
     atom_test |-> Param(args, 5)]

AtomRef(m, c, r, a) == [model |-> m, chain |-> c, residue |-> r, atom |-> a]
Yield(run, fragment) == [run EXCEPT !.yields = Append(@, fragment)]
\* test(context, x) where test is a literal: 'str' object is not callable
NotCallable(run) == [run EXCEPT !.raised = "TypeError"]

\* a test given as a Python function of (context, x): accepts is the set of
\* the ids (model id, chain id, residue id, atom name) it answers True for
Function(accepts) == [kind |-> "function", accepts |-> accepts]
residue_id(res) == <<res.het, res.resseq, res.icode>>

\* "test is not None and not test(context, x)" with a callable test
Rejects(test, id) == test # NoneObj /\ id \notin test.accepts
IsCallable(test) == test = NoneObj \/ test.kind = "function"

for_atom_body(struct, b, m, c, r, a, run) ==
    IF ~IsCallable(b.atom_test) THEN NotCallable(run)
    ELSE IF Rejects(b.atom_test, struct[m].chains[c].residues[r].atoms[a].name) THEN run
    ELSE Yield(run, <<AtomRef(m, c, r, a)>>)

RECURSIVE for_atom(_, _, _, _, _, _, _)
for_atom(struct, b, m, c, r, a, run) ==
    IF run.raised # "" \/ a > Len(struct[m].chains[c].residues[r].atoms) THEN run
    ELSE for_atom(struct, b, m, c, r, a + 1, for_atom_body(struct, b, m, c, r, a, run))

for_residue_body(struct, b, m, c, r, run) ==
    IF ~IsCallable(b.residue_test) THEN NotCallable(run)
    ELSE IF Rejects(b.residue_test, residue_id(struct[m].chains[c].residues[r])) THEN run
    ELSE for_atom(struct, b, m, c, r, 1, run)

RECURSIVE for_residue(_, _, _, _, _, _)
for_residue(struct, b, m, c, r, run) ==
    IF run.raised # "" \/ r > Len(struct[m].chains[c].residues) THEN run
    ELSE for_residue(struct, b, m, c, r + 1, for_residue_body(struct, b, m, c, r, run))

\* (first, a loop body that descends into a chain whatever chain_test says)
for_chain_body_NoTest(struct, b, m, c, run) ==
    IF ~IsCallable(b.chain_test) THEN NotCallable(run)
    ELSE for_residue(struct, b, m, c, 1, run)
for_chain_body(struct, b, m, c, run) ==
    IF ~IsCallable(b.chain_test) THEN NotCallable(run)
    ELSE IF Rejects(b.chain_test, struct[m].chains[c].id) THEN run
    ELSE for_residue(struct, b, m, c, 1, run)

RECURSIVE for_chain(_, _, _, _, _)
for_chain(struct, b, m, c, run) ==
    IF run.raised # "" \/ c > Len(struct[m].chains) THEN run
    ELSE for_chain(struct, b, m, c + 1, for_chain_body(struct, b, m, c, run))

for_model_body(struct, b, m, run) ==
    IF ~IsCallable(b.model_test) THEN NotCallable(run)
    ELSE IF Rejects(b.model_test, struct[m].id) THEN run
    ELSE for_chain(struct, b, m, 1, run)

RECURSIVE for_model(_, _, _, _)
for_model(struct, b, m, run) ==
    IF run.raised # "" \/ m > Len(struct) THEN run
    ELSE for_model(struct, b, m + 1, for_model_body(struct, b, m, run))

\* the whole run of the generator atom_groups(context, *args): the loop is
\* "for model in structure"; the list models, cut to its first member when
\* model_test is None, is not what it iterates
atom_groups(struct, args) ==
    for_model(struct, Bind(args), 1, [yields |-> <<>>, raised |-> ""])

(***************************************************************************)
(* StructureContext._eval (query.py).  "for k, v in expr.args" iterates    *)
(* the KEYS of the dict and unpacks each key into k and v.                 *)
(***************************************************************************)
RECURSIVE for_k_v(_, _, _, _)
for_k_v_unpacked(ks, i, posargs, kwargs, k, v) ==
    IF k \in digits
    THEN for_k_v(ks, i + 1, setitem(posargs, IntObj(DigitVal(k)), StrObj(<<v>>)), kwargs)
    ELSE for_k_v(ks, i + 1, posargs, setitem(kwargs, StrObj(<<k>>), StrObj(<<v>>)))

for_k_v_key(ks, i, posargs, kwargs, key) ==
    IF key.kind # "str" THEN [raised |-> "TypeError"]        \* 'int' object is not iterable
    ELSE IF Len(key.s) # 2 THEN [raised |-> "ValueError"]    \* need more / too many values to unpack
    ELSE for_k_v_unpacked(ks, i, posargs, kwargs, key.s[1], key.s[2])

for_k_v(ks, i, posargs, kwargs) ==
    IF i > Len(ks) THEN [raised |-> "", posargs |-> posargs, kwargs |-> kwargs]
    ELSE for_k_v_key(ks, i, posargs, kwargs, ks[i])

SetMax(S) == CHOOSE x \in S : \A y \in S : y <= x
getitem(d, key) == (CHOOSE i \in 1..Len(d) : d[i].key = key)
has_key(d, key) == \E i \in 1..Len(d) : d[i].key = key

\* max(posargs.keys()), 0 standing for the empty args_evaled
maxarg(posargs) == IF Len(posargs) > 0 THEN SetMax({ posargs[i].key.n : i \in 1..Len(posargs) }) ELSE 0

\* impl(self, *args_evaled, **kwargs_evaled): the call of the registered
\* function.  kwargs_evaled is the empty dict whenever the call is reached,
\* a non-empty kwargs having raised in the comprehension of the line before
call_impl(impl, args) ==
    IF Len(args) > AtomGroupsParams
    THEN [status |-> "raised", type |-> "TypeError", at |-> "call",
          invoked |-> <<>>]
    ELSE [status |-> "returned",
          value |-> [kind |-> "generator", impl |-> impl, args |-> args],
          invoked |-> <<[impl |-> impl, args |-> args, kwargs |-> <<>>]>>]

\* (self._eval(posargs[i]) for i in xrange(maxarg)), unpacked by the call
args_evaled(impl, posargs, n) ==
    IF \E i \in 0..(n - 1) : ~has_key(posargs, IntObj(i))
    THEN Raised("KeyError", "posargs")
    ELSE call_impl(impl, [i \in 1..n |-> posargs[getitem(posargs, IntObj(i - 1))].val])

_eval_partitioned(impl, part) ==
    IF part.raised # "" THEN Raised(part.raised, "for k, v in expr.args")
    ELSE IF Len(part.kwargs) > 0 THEN Raised("ValueError", "for k, v in kwargs")
    ELSE args_evaled(impl, part.posargs, maxarg(part.posargs))

_eval(registry, expr) ==
    IF expr.kind # "Expression"
    THEN [status |-> "returned", value |-> expr, invoked |-> <<>>]
    ELSE IF expr.head \notin DOMAIN registry THEN Raised("KeyError", "get_symbol")
    ELSE _eval_partitioned(registry[expr.head], for_k_v(keys(expr.args), 1, <<>>, <<>>))

\* MolQL.apply(structure): StructureContext(self, structure)()
apply(registry, expr) == _eval(registry, expr)

(***************************************************************************)
(* The JSON syntax (json_script.py).  A JSON text is represented by the    *)
(* Python value json.loads reads from it: Dict(items), List(items) or a    *)
(* literal, the members of an object in the order of the text.             *)
(***************************************************************************)
Dict(items) == [kind |-> "dict", items |-> items]
List(items) == [kind |-> "list", items |-> items]
Raise(type) == [kind |-> "raise", type |-> type]

key_head == StrObj(<<"h", "e", "a", "d">>)
key_args == StrObj(<<"a", "r", "g", "s">>)
key_expression == StrObj(<<"e", "x", "p", "r", "e", "s", "s", "i", "o", "n">>)
key_source == StrObj(<<"s", "o", "u", "r", "c", "e">>)
key_version == StrObj(<<"v", "e", "r", "s", "i", "o", "n">>)
version_0_1_0 == StrObj(<<"0", ".", "1", ".", "0">>)
source_BioPython == StrObj(<<"B", "i", "o", "P", "y", "t", "h", "o", "n">>)

get(d, key) == d[getitem(d, key)].val

\* str(i) of a small non-negative int
str(i) == <<CHOOSE c \in digits : DigitVal(c) = i>>

\* json.dumps followed by json.loads of a value: an int key of an object is
\* written as its decimal string, and of two equal member names the later
\* value is read
RECURSIVE json_dumps(_)
RECURSIVE json_members(_, _, _)
json_key(key) == IF key.kind = "int" THEN StrObj(str(key.n)) ELSE key
json_members(items, i, acc) ==
    IF i > Len(items) THEN acc
    ELSE json_members(items, i + 1,
                      setitem(acc, json_key(items[i].key), json_dumps(items[i].val)))
json_dumps(obj) ==
    IF obj.kind = "dict" THEN Dict(json_members(obj.items, 1, <<>>))
    ELSE IF obj.kind = "list"
    THEN List([i \in 1..Len(obj.items) |-> json_dumps(obj.items[i])])
    ELSE obj

\* JSONSyntax.load_dict and its parse_expression
RECURSIVE parse_expression(_)
RECURSIVE parse_args(_, _, _, _)
\* (first, a parse_args_put that keys the members of an array by the int i)
parse_args_put_IntKeys(items, i, acc, asList, parsed) ==
    IF parsed.kind = "raise" THEN parsed
    ELSE parse_args(items, i + 1,
                    setitem(acc, IF asList THEN IntObj(i - 1) ELSE items[i].key, parsed),
                    asList)
parse_args_put(items, i, acc, asList, parsed) ==
    IF parsed.kind = "raise" THEN parsed
    ELSE parse_args(items, i + 1,
                    setitem(acc, IF asList THEN StrObj(str(i - 1)) ELSE items[i].key, parsed),
                    asList)
parse_args(items, i, acc, asList) ==
    IF i > Len(items) THEN Dict(acc)
    ELSE parse_args_put(items, i, acc, asList,
                        parse_expression(IF asList THEN items[i] ELSE items[i].val))
parse_node_args(head, args) ==
    IF args.kind = "raise" THEN args ELSE Expression(head, args.items)
parse_node_with_args(head, args) ==
    IF args.kind = "dict" THEN parse_node_args(head, parse_args(args.items, 1, <<>>, FALSE))
    ELSE IF args.kind = "list" THEN parse_node_args(head, parse_args(args.items, 1, <<>>, TRUE))
    ELSE Raise("ValueError")
parse_expression(node) ==
    IF node.kind = "dict"
    THEN IF ~has_key(node.items, key_head) THEN Raise("MolQLFormatError")
         ELSE IF ~has_key(node.items, key_args)
         THEN Expression(get(node.items, key_head).s, <<>>)
         ELSE parse_node_with_args(get(node.items, key_head).s, get(node.items, key_args))
    ELSE node
load_dict(jsonDict) ==
    IF ~has_key(jsonDict.items, key_expression) THEN Raise("MolQLFormatError")
    ELSE parse_expression(get(jsonDict.items, key_expression))

\* JSONSyntax.loads
JSONSyntax_loads(query) == load_dict(query)

\* JSONSyntax.dump_dict and its to_json_dict
RECURSIVE to_json_dict(_)
\* to_json_dict without the test len(tree.args) > 0
to_json_dict_KeepsEmptyArgs(t) ==
    Dict(<<Item(key_head, StrObj(t.head)),
           Item(key_args,
                Dict([i \in 1..Len(t.args) |->
                        Item(t.args[i].key,
                             IF t.args[i].val.kind = "Expression"
                             THEN to_json_dict(t.args[i].val)
                             ELSE t.args[i].val)]))>>)
to_json_dict(t) ==
    IF Len(t.args) > 0
    THEN Dict(<<Item(key_head, StrObj(t.head)),
                Item(key_args,
                     Dict([i \in 1..Len(t.args) |->
                             Item(t.args[i].key,
                                  IF t.args[i].val.kind = "Expression"
                                  THEN to_json_dict(t.args[i].val)
                                  ELSE t.args[i].val)]))>>)
    ELSE Dict(<<Item(key_head, StrObj(t.head))>>)
dump_dict(expr) ==
    IF expr.kind # "Expression" THEN Raise("AttributeError")
    ELSE Dict(<<Item(key_source, source_BioPython),
                Item(key_version, version_0_1_0),
                Item(key_expression, to_json_dict(expr))>>)

dumps_dumped(d) == IF d.kind = "raise" THEN d ELSE json_dumps(d)
\* JSONSyntax.dumps
JSONSyntax_dumps(expr) == dumps_dumped(dump_dict(expr))

(***************************************************************************)
(* The Lisp-like syntax (molql_script.py): molscriptBNF.  Every element    *)
(* skips leading whitespace.  After a '-' of the grammar a failure is a    *)
(* ParseSyntaxException, which no alternative or repetition catches.       *)
(***************************************************************************)
whitespace == {" ", "\t", "\n", "\r"}
punctuation == {"(", ")", "{", "}", "'", "\"", ":", ".", ",", "-", "+", "_", "=", "$"}
Alphabet == letters \cup digits \cup whitespace \cup punctuation
SyntaxError == [ok |-> FALSE, loc |-> 0, toks |-> <<"ParseSyntaxException">>]
IsFatal(r) == ~r.ok /\ r.toks # <<>>
skip(s, loc) == RunEnd(whitespace, s, loc)
At(s, i) == IF i >= 1 /\ i <= Len(s) THEN s[i] ELSE ""

\* token = pp.Regex(r"[^\s(){}'\":]+")
TokenChars == Alphabet \ (whitespace \cup {"(", ")", "{", "}", "'", "\"", ":"})
token(s, loc) == Word(TokenChars, s, skip(s, loc))

\* bare_string_s = token.copy()
bare_string_s_token(r) ==
    IF r.ok THEN Match(r.loc, <<StrObj(r.toks[1])>>) ELSE NoMatch
bare_string_s(s, loc) == bare_string_s_token(token(s, loc))

\* string_s = pp.quotedString with removeQuotes: the body is any run of
\* characters other than the quote and the line ends, a doubled quote
\* standing inside the body (the alphabet has no backslash)
RECURSIVE quotedEnd(_, _, _)
quotedEnd_doubled(j, r) == IF r # 0 THEN r ELSE j + 1
quotedEnd_body(q, s, j) ==
    IF At(s, j) # q THEN 0
    ELSE IF At(s, j + 1) = q THEN quotedEnd_doubled(j, quotedEnd(q, s, j + 2))
    ELSE j + 1
quotedEnd(q, s, i) == quotedEnd_body(q, s, RunEnd(Alphabet \ {q, "\n", "\r"}, s, i))
string_s_end(s, st, end) ==
    IF end = 0 THEN NoMatch ELSE Match(end, <<StrObj(SubSeq(s, st + 1, end - 2))>>)
string_s_at(s, st) ==
    IF At(s, st) \in {"\"", "'"} THEN string_s_end(s, st, quotedEnd(s[st], s, st + 1))
    ELSE NoMatch
string_s(s, loc) == string_s_at(s, skip(s, loc))

\* fnumber_s = pp.Regex(r"[+-]?\d+(?:\.\d*)?(?:[eE][+-]?\d+)?") with float()
signEnd(s, i) == IF At(s, i) \in {"+", "-"} THEN i + 1 ELSE i
fractionEnd(s, i) == IF At(s, i) = "." THEN RunEnd(digits, s, i + 1) ELSE i
exponentEnd_digits(i, j, k) == IF k > j THEN k ELSE i
exponentEnd_sign(s, i, j) == exponentEnd_digits(i, j, RunEnd(digits, s, j))
exponentEnd(s, i) ==
    IF At(s, i) \in {"e", "E"} THEN exponentEnd_sign(s, i, signEnd(s, i + 1)) ELSE i
\* float() of the matched text: sign, integer digits s[i1..i2-1], fraction
\* digits s[i2+1..i3-1], exponent s[i3+1..i4-1]
float(s, st, i1, i2, i3, i4) ==
    FloatObj((IF At(s, st) = "-" THEN 0 - 1 ELSE 1)
               * DecimalValue(SubSeq(s, i1, i2 - 1) \o SubSeq(s, i2 + 1, i3 - 1)),
             (IF i4 > i3 THEN int(SubSeq(s, i3 + 1, i4 - 1)) ELSE 0)
               - (IF i3 > i2 THEN i3 - i2 - 1 ELSE 0))
fnumber_s_exponent(s, st, i1, i2, i3, i4) == Match(i4, <<float(s, st, i1, i2, i3, i4)>>)
fnumber_s_fraction(s, st, i1, i2, i3) == fnumber_s_exponent(s, st, i1, i2, i3, exponentEnd(s, i3))
fnumber_s_digits(s, st, i1, i2) ==
    IF i2 = i1 THEN NoMatch ELSE fnumber_s_fraction(s, st, i1, i2, fractionEnd(s, i2))
fnumber_s_sign(s, st, i1) == fnumber_s_digits(s, st, i1, RunEnd(digits, s, i1))
fnumber_s_at(s, st) == fnumber_s_sign(s, st, signEnd(s, st))
fnumber_s(s, loc) == fnumber_s_at(s, skip(s, loc))

\* pp.CaselessKeyword: the word in any case, not next to an identifier
\* character
identChars == alphanums \cup {"_", "$"}
CaselessKeyword_at(word, value, s, st) ==
    IF /\ \A i \in 1..Len(word) : At(s, st + i - 1) \in word[i]
       /\ At(s, st + Len(word)) \notin identChars
       /\ At(s, st - 1) \notin identChars
    THEN Match(st + Len(word), <<BoolObj(value)>>)
    ELSE NoMatch
CaselessKeyword(word, value, s, loc) == CaselessKeyword_at(word, value, s, skip(s, loc))
kw_true == <<{"t", "T"}, {"r", "R"}, {"u", "U"}, {"e", "E"}>>
kw_false == <<{"f", "F"}, {"a", "A"}, {"l", "L"}, {"s", "S"}, {"e", "E"}>>
bool_s_true(s, loc, r) == IF r.ok THEN r ELSE CaselessKeyword(kw_false, FALSE, s, loc)
bool_s(s, loc) == bool_s_true(s, loc, CaselessKeyword(kw_true, TRUE, s, loc))

\* literal_e = pp.Group(string_s | fnumber_s | bool_s | bare_string_s)
literal_e_bool(s, loc, r) == IF r.ok THEN r ELSE bare_string_s(s, loc)
literal_e_fnumber(s, loc, r) == IF r.ok THEN r ELSE literal_e_bool(s, loc, bool_s(s, loc))
literal_e_string(s, loc, r) == IF r.ok THEN r ELSE literal_e_fnumber(s, loc, fnumber_s(s, loc))
literal_e(s, loc) == literal_e_string(s, loc, string_s(s, loc))

\* parseApply
parseApply(t) ==
    IF Len(t) = 1 THEN Expression(t[1], <<>>) ELSE Expression(t[1], t[2])

\* parseArgument: (label, Expression), the label None for a positional one
parseArgument(t) ==
    IF Len(t) = 1 THEN [label |-> NoneObj, expr |-> t[1]]
    ELSE [label |-> t[1], expr |-> t[2]]

\* parseArguments: args[i if label is None else label] = expr
RECURSIVE enumerate_pairs(_, _, _)
enumerate_pairs(t, i, args) ==
    IF i >= Len(t) THEN args
    ELSE enumerate_pairs(t, i + 1,
            setitem(args, IF t[i + 1].label = NoneObj THEN IntObj(i) ELSE t[i + 1].label,
                    t[i + 1].expr))
\* parseArguments numbering every argument, labelled or not
parseArguments_IgnoresLabels(t) ==
    [i \in 1..Len(t) |-> Item(IntObj(i - 1), t[i].expr)]
parseArguments(t) == enumerate_pairs(t, 0, <<>>)

RECURSIVE expr_e(_, _)
RECURSIVE posarguments(_, _, _)
RECURSIVE kwarguments(_, _, _)

\* kwargument_e = (pp.Suppress(":") - token - expr_e), repeated
\* (first, a grammar that takes positional arguments again after a named
\* one)
kwargument_e_expr_AnyOrder(s, pairs, label, v) ==
    IF ~v.ok THEN SyntaxError
    ELSE posarguments(s, v.loc, Append(pairs, parseArgument(<<StrObj(label)>> \o v.toks)))
kwargument_e_expr(s, pairs, label, v) ==
    IF ~v.ok THEN SyntaxError
    ELSE kwarguments(s, v.loc, Append(pairs, parseArgument(<<StrObj(label)>> \o v.toks)))
kwargument_e_token(s, pairs, n) ==
    IF ~n.ok THEN SyntaxError
    ELSE kwargument_e_expr(s, pairs, n.toks[1], expr_e(s, n.loc))
kwargument_e(s, loc, pairs, colon) ==
    IF ~colon.ok THEN Match(loc, <<parseArguments(pairs)>>)
    ELSE kwargument_e_token(s, pairs, token(s, colon.loc))
kwarguments(s, loc, pairs) == kwargument_e(s, loc, pairs, Suppress(":", s, skip(s, loc)))

\* posargument_e = expr_e.copy(), repeated
posargument_e(s, loc, pairs, r) ==
    IF r.ok THEN posarguments(s, r.loc, Append(pairs, parseArgument(r.toks)))
    ELSE IF IsFatal(r) THEN r
    ELSE kwarguments(s, loc, pairs)
posarguments(s, loc, pairs) == posargument_e(s, loc, pairs, expr_e(s, loc))

\* arguments_e = pp.ZeroOrMore(posargument_e) - pp.ZeroOrMore(kwargument_e)
arguments_e(s, loc) == posarguments(s, loc, <<>>)

\* apply_e = pp.Suppress("(") - head_s - arguments_e - pp.Suppress(")")
apply_e_close(head, args, close) ==
    IF ~close.ok THEN SyntaxError ELSE Match(close.loc, <<parseApply(<<head, args>>)>>)
apply_e_arguments(s, head, a) ==
    IF ~a.ok THEN a
    ELSE apply_e_close(head, a.toks[1], Suppress(")", s, skip(s, a.loc)))
apply_e_head(s, h) ==
    IF ~h.ok THEN SyntaxError ELSE apply_e_arguments(s, h.toks[1], arguments_e(s, h.loc))
apply_e_open(s, open) ==
    IF ~open.ok THEN NoMatch ELSE apply_e_head(s, token(s, open.loc))
apply_e(s, loc) == apply_e_open(s, Suppress("(", s, skip(s, loc)))

\* expr_e <<= (apply_e | literal_e)
expr_e_apply(s, loc, a) == IF a.ok \/ IsFatal(a) THEN a ELSE literal_e(s, loc)
expr_e(s, loc) == expr_e_apply(s, loc, apply_e(s, loc))

\* molscriptBNF().parseString(s, parseAll)[0]
parseString_molscript_end(s, parseAll, r) ==
    IF ~r.ok THEN Raise(IF IsFatal(r) THEN "ParseSyntaxException" ELSE "ParseException")
    ELSE IF parseAll /\ skip(s, r.loc) # Len(s) + 1 THEN Raise("ParseException")
    ELSE r.toks[1]
parseString_molscript(s, parseAll) == parseString_molscript_end(s, parseAll, expr_e(s, 1))

\* MolQLSyntax.loads
MolQLSyntax_loads(s) == parseString_molscript(s, FALSE)

\* Expression.__repr__
repr(expr) ==
    <<"E", "x", "p", "r", "e", "s", "s", "i", "o", "n", "(", "\"">> \o expr.head
        \o (IF Len(expr.args) > 0 THEN <<"\"", ",", " ", ".", ".", ".", ")">> ELSE <<"\"", ")">>)

\* " " * n
Spaces(n) == [i \in 1..n |-> " "]
Zeros(n) == [i \in 1..n |-> "0"]

\* str(n) of a non-negative int
RECURSIVE str_digits(_)
str_digits(n) == IF n < 10 THEN str(n) ELSE str_digits(n \div 10) \o str(n % 10)

\* repr of a float m * 10^e with 1e-4 <= |m * 10^e| < 1e16, or of 0.0
repr_fraction(d, e) ==
    SubSeq(d, 1, Len(d) + e) \o <<".">> \o SubSeq(d, Len(d) + e + 1, Len(d))
repr_magnitude(d, e) ==
    IF e >= 0 THEN d \o Zeros(e) \o <<".", "0">>
    ELSE IF Len(d) + e >= 1 THEN repr_fraction(d, e)
    ELSE repr_fraction(Zeros(1 - e - Len(d)) \o d, e)
repr_float(m, e) ==
    IF m < 0 THEN <<"-">> \o repr_magnitude(str_digits(0 - m), e)
    ELSE repr_magnitude(str_digits(m), e)

\* repr(child) of a literal argument; a str read by json.loads is a unicode
repr_literal(child, unicode) ==
    CASE child.kind = "str" ->
            (IF unicode THEN <<"u">> ELSE <<>>) \o <<"'">> \o child.s \o <<"'">>
      [] child.kind = "float" -> repr_float(child.m, child.e)
      [] child.kind = "int" ->
            IF child.n < 0 THEN <<"-">> \o str_digits(0 - child.n) ELSE str_digits(child.n)
      [] child.kind = "bool" ->
            IF child.b THEN <<"T", "r", "u", "e">> ELSE <<"F", "a", "l", "s", "e">>
      [] OTHER -> <<"N", "o", "n", "e">>

\* the loop over query.args.items() of MolQLSyntax.dump from item i on, acc
\* being what fp holds: an Expression child calls
\* self.dumps(child, fp, indent=indent + 2), which raises TypeError (indent + 2
\* with indent None, or Syntax.dumps(self, query) called with fp and indent);
\* a literal child is written only when pretty, and its label never
RECURSIVE dump_children(_, _, _, _, _)
dump_children(items, i, indent, unicode, acc) ==
    IF i > Len(items) THEN [raised |-> "", s |-> acc]
    ELSE IF items[i].val.kind = "Expression" THEN [raised |-> "TypeError", s |-> acc]
    ELSE dump_children(items, i + 1, indent, unicode,
            IF indent = PyNone THEN acc
            ELSE acc \o Spaces(indent.v + 2) \o repr_literal(items[i].val, unicode)
                     \o <<"\n">>)

\* if pretty: fp.write(" " * indent), after the loop
dump_children_indented(r, indent) ==
    IF r.raised # "" THEN r ELSE [raised |-> "", s |-> r.s \o Spaces(indent.v)]

dump_close(r, indent) ==
    IF r.raised # "" THEN r
    ELSE [raised |-> "",
          s |-> r.s \o <<")">> \o (IF indent = PyNone THEN <<>> ELSE <<"\n">>)]

dump_args(query, indent, unicode, acc) ==
    IF Len(query.args) = 0 THEN dump_close([raised |-> "", s |-> acc], indent)
    ELSE dump_close(
            IF indent = PyNone
            THEN dump_children(query.args, 1, indent, unicode, acc \o <<" ">>)
            ELSE dump_children_indented(
                    dump_children(query.args, 1, indent, unicode, acc \o <<"\n">>), indent),
            indent)

\* MolQLSyntax.dump(query, fp, indent): what fp holds after the call, sink
\* being what it held before, and the error raised, if any
MolQLSyntax_dump_fp(query, sink, indent, unicode) ==
    IF query.kind # "Expression"
    THEN [raised |-> "AttributeError",
          s |-> sink \o (IF indent = PyNone THEN <<>> ELSE Spaces(indent.v)) \o <<"(">>]
    ELSE dump_args(query, indent, unicode,
                   sink \o (IF indent = PyNone THEN <<>> ELSE Spaces(indent.v))
                        \o <<"(">> \o query.head)

\* MolQLSyntax.dump(query, fp) with indent=None: what it writes to fp, or
\* the error it raises.  A literal argument writes nothing; an Expression
\* argument evaluates indent + 2 with indent None.
MolQLSyntax_dump_written(r) == IF r.raised # "" THEN Raise(r.raised) ELSE StrObj(r.s)
MolQLSyntax_dump(query) ==
    MolQLSyntax_dump_written(MolQLSyntax_dump_fp(query, <<>>, PyNone, FALSE))

\* StringIO(buf) written from position 0: the text overwrites the buffer
StringIO_write(buf, written) ==
    written \o SubSeq(buf, Len(written) + 1, Len(buf))

\* Syntax.dumps: s = StringIO(query); self.dump(query, s); s.getvalue()
Syntax_dumps_dumped(query, d) ==
    IF d.kind = "raise" THEN d ELSE StrObj(StringIO_write(repr(query), d.s))
Syntax_dumps(query) == Syntax_dumps_dumped(query, MolQLSyntax_dump(query))

(***************************************************************************)
(* Query texts.  A Lisp text is written from a form: a head, positional    *)
(* arguments and named arguments, each argument a literal as written or a  *)
(* nested form.  A JSON text is a document of the shape                    *)
(* {"source", "version", "expression": Node}.                              *)
(***************************************************************************)
MaxArgs == 2    \* arguments of the root application of a generated text

SeqsUpTo(S, n) == UNION { [1..k -> S] : k \in 0..n }
RECURSIVE Flatten(_)
Flatten(ss) == IF ss = <<>> THEN <<>> ELSE Head(ss) \o Flatten(Tail(ss))

ALA == <<"A", "L", "A">>
Heads == { <<"f">>, atom_groups_name }
Labels == { <<"0", "2">>, <<"a", "b">> }

LitArg(written, value) == [kind |-> "lit", text |-> written, value |-> value]
App(head, pos, named) == [kind |-> "app", head |-> head, pos |-> pos, named |-> named]
NamedArg(label, arg) == [label |-> label, arg |-> arg]

LispLiterals ==
    { LitArg(<<"1">>, FloatObj(1, 0)),
      LitArg(ALA, StrObj(ALA)),
      LitArg(<<"t", "r", "u", "e">>, BoolObj(TRUE)),
      LitArg(<<"\"", "C", " ", "A", "\"">>, StrObj(<<"C", " ", "A">>)) }
InnerForms ==
    { App(<<"g">>, <<>>, <<>>),
      App(<<"g">>, <<>>, <<NamedArg(<<"a", "b">>, LitArg(ALA, StrObj(ALA)))>>),
      App(atom_groups_name, <<LitArg(<<"1">>, FloatObj(1, 0))>>, <<>>) }
ArgValues == LispLiterals \cup InnerForms
NamedArgs == { NamedArg(l, a) : l \in Labels, a \in ArgValues }
NamedLists(n) ==
    { named \in SeqsUpTo(NamedArgs, n) :
        \A i, j \in 1..Len(named) : i # j => named[i].label # named[j].label }
Seps == { <<" ">>, <<"\n", " ">> }
LispForms ==
    UNION { { App(h, pos, named) : h \in Heads, pos \in [1..p -> ArgValues],
                                   named \in NamedLists(MaxArgs - p) } :
            p \in 0..MaxArgs }
LispGivens == { [format |-> "molql", form |-> f, sep |-> sp] : f \in LispForms, sp \in Seps }

\* bare tokens as written, each with the value it is to be decoded as: a
\* number if the whole token is a float, a boolean if it is true or false
\* in any letter case, and otherwise the string of its text
LiteralTokens ==
    { LitArg(<<"1">>, FloatObj(1, 0)),
      LitArg(<<"-", "2", ".", "5">>, FloatObj(0 - 25, 0 - 1)),
      LitArg(<<"1", "e", "2">>, FloatObj(1, 2)),
      LitArg(<<"T", "R", "U", "E">>, BoolObj(TRUE)),
      LitArg(<<"F", "a", "l", "s", "e">>, BoolObj(FALSE)),
      LitArg(ALA, StrObj(ALA)),
      LitArg(<<"t", "r", "u", "e", "x">>, StrObj(<<"t", "r", "u", "e", "x">>)),
      LitArg(<<"x", "1">>, StrObj(<<"x", "1">>)),
      LitArg(<<"1", "8", "A">>, StrObj(<<"1", "8", "A">>)),
      LitArg(<<"1", "e">>, StrObj(<<"1", "e">>)) }
TokenForms ==
    { App(<<"f">>, pos, <<>>) : pos \in UNION { [1..k -> LiteralTokens] : k \in 1..MaxArgs } }
TokenGivens == { [format |-> "molql", form |-> f, sep |-> sp] : f \in TokenForms, sp \in Seps }

RECURSIVE WriteForm(_, _)
WriteArg(a, sep) == IF a.kind = "lit" THEN a.text ELSE WriteForm(a, sep)
WriteForm(f, sep) ==
    <<"(">> \o f.head
      \o Flatten([i \in 1..Len(f.pos) |-> sep \o WriteArg(f.pos[i], sep)])
      \o Flatten([i \in 1..Len(f.named) |->
                    sep \o <<":">> \o f.named[i].label \o <<" ">>
                        \o WriteArg(f.named[i].arg, sep)])
      \o <<")">>

\* applications whose arguments are written in any order, a named one
\* before a positional one included
OrderValues ==
    { LitArg(<<"1">>, FloatObj(1, 0)), LitArg(ALA, StrObj(ALA)), App(<<"g">>, <<>>, <<>>) }
OrderItems == OrderValues \cup { NamedArg(l, a) : l \in Labels, a \in OrderValues }
IsNamed(item) == "label" \in DOMAIN item
OrderGivens ==
    { [format |-> "molql", head |-> h, items |-> items, sep |-> <<" ">>] :
        h \in Heads, items \in SeqsUpTo(OrderItems, MaxArgs) }
WriteItem(item, sep) ==
    IF IsNamed(item) THEN <<":">> \o item.label \o <<" ">> \o WriteArg(item.arg, sep)
    ELSE WriteArg(item, sep)
WriteApplication(head, items, sep) ==
    <<"(">> \o head \o Flatten([i \in 1..Len(items) |-> sep \o WriteItem(items[i], sep)])
      \o <<")">>

NodeNoArgs(head) == Dict(<<Item(key_head, StrObj(head))>>)
Node(head, args) == Dict(<<Item(key_head, StrObj(head)), Item(key_args, args)>>)
JsonLeaves == { StrObj(ALA), IntObj(1), BoolObj(TRUE) }
InnerNodes ==
    { NodeNoArgs(<<"g">>),
      Node(<<"g">>, Dict(<<>>)),
      Node(atom_groups_name, Dict(<<Item(StrObj(<<"0">>), StrObj(ALA))>>)),
      Node(<<"g">>, List(<<StrObj(ALA)>>)) }
JsonValues == JsonLeaves \cup InnerNodes
JsonKeys == << <<"0">>, <<"1">>, <<"0", "2">>, <<"1", "0">>, <<"a", "b">> >>
Nth(K, i) == CHOOSE x \in K : Cardinality({ y \in K : y < x }) = i - 1
Members(K, v) ==
    [i \in 1..Cardinality(K) |-> Item(StrObj(JsonKeys[Nth(K, i)]), v[Nth(K, i)])]
ObjectArgs ==
    UNION { { Dict(Members(K, v)) : v \in [K -> JsonValues] } :
            K \in { k \in SUBSET (1..Len(JsonKeys)) : Cardinality(k) <= MaxArgs } }
ArrayArgs == { List(items) : items \in SeqsUpTo(JsonValues, MaxArgs) }
RootNodes ==
    { NodeNoArgs(h) : h \in Heads }
      \cup { Node(h, a) : h \in Heads, a \in ObjectArgs \cup ArrayArgs }
      \cup { Dict(<<>>), Node(<<"f">>, StrObj(ALA)), StrObj(ALA) }
Versions == { version_0_1_0, StrObj(<<"0", ".", "0", ".", "9">>) }
Document(version, node) ==
    Dict(<<Item(key_source, StrObj(<<"m", "o", "l", "q", "l", "-", "e", "x", "p", "l", "o", "r", "e", "r">>)),
           Item(key_version, version),
           Item(key_expression, node)>>)
Documents ==
    { Document(v, n) : v \in Versions, n \in RootNodes }
      \cup { Dict(<<Item(key_version, version_0_1_0)>>) }
JsonGivens == { [format |-> "json", document |-> d] : d \in Documents }

\* documents with defects: object nodes without "head", at the root and as
\* arguments in object and array form down to depth 2, beside well-formed
\* values and a node whose "args" is neither an object nor an array
HeadlessNodes == { Dict(<<>>), Dict(<<Item(key_args, List(<<StrObj(ALA)>>))>>) }
DeepHeadless ==
    { Node(<<"g">>, Dict(<<Item(StrObj(<<"a", "b">>), h)>>)) : h \in HeadlessNodes }
      \cup { Node(<<"g">>, List(<<h>>)) : h \in HeadlessNodes }
DefectValues ==
    JsonValues \cup HeadlessNodes \cup DeepHeadless \cup { Node(<<"g">>, StrObj(ALA)) }
DefectKeys == {1, 5}
DefectArgs ==
    UNION { { Dict(Members(K, v)) : v \in [K -> DefectValues] } : K \in SUBSET DefectKeys }
      \cup { List(items) : items \in SeqsUpTo(DefectValues, MaxArgs) }
DefectDocuments ==
    { Document(version_0_1_0, Node(<<"f">>, a)) : a \in DefectArgs }
      \cup { Document(version_0_1_0, h) : h \in HeadlessNodes }
      \cup { Dict(<<Item(key_version, version_0_1_0)>>) }
DefectGivens == { [format |-> "json", document |-> d] : d \in DefectDocuments }

(***************************************************************************)
(* MolQL of Bio/PDB/molql/query.py and the operations on a query.          *)
(***************************************************************************)
\* a syntax object: its class, whose loads and dump it has, and what its
\* name() returns
Syntax(class, name) == [kind |-> "Syntax", class |-> class, name |-> name]
JSONSyntax == Syntax("JSONSyntax", "json")
MolQLSyntax == Syntax("MolQLSyntax", "molql")

\* syntax.register_syntax(syntax): _syntaxes[syntax.name().lower()] = syntax
\* (first, a register_syntax that stores under the name as given)
register_syntax_KeepsCase(registry, syntax) ==
    [n \in DOMAIN registry \cup {syntax.name} |->
        IF n = syntax.name THEN syntax ELSE registry[n]]
register_syntax(registry, syntax) ==
    [n \in DOMAIN registry \cup {lower(syntax.name)} |->
        IF n = lower(syntax.name) THEN syntax ELSE registry[n]]

\* syntax.get_syntax(name): _syntaxes[name.lower()]
\* (first, a get_syntax that falls back to the JSON syntax)
get_syntax_FallsBack(registry, name) ==
    IF lower(name) \in DOMAIN registry THEN registry[lower(name)] ELSE JSONSyntax
get_syntax(registry, name) ==
    IF lower(name) \in DOMAIN registry THEN registry[lower(name)] ELSE Raise("KeyError")

\* syntax.get_syntaxes(): the keys of _syntaxes
get_syntaxes(registry) == DOMAIN registry

\* syntax._syntaxes after the imports of query.py
no_syntaxes == [n \in {} |-> JSONSyntax]
registered_syntaxes == register_syntax(register_syntax(no_syntaxes, JSONSyntax), MolQLSyntax)
QueryFormats == {"json", "JSON", "molql", "auto"}

\* parser.loads(query): a text of the other syntax is no text of this one
loads(parser, written, query) ==
    IF parser.class = "JSONSyntax"
    THEN IF written = "json" THEN JSONSyntax_loads(query) ELSE Raise("ValueError")
    ELSE IF written = "molql" THEN MolQLSyntax_loads(query) ELSE Raise("ParseException")

\* parser.dumps(expression)
dumps(parser, expr) ==
    IF parser.class = "JSONSyntax" THEN JSONSyntax_dumps(expr) ELSE Syntax_dumps(expr)

\* JSONSyntax.dump(expr, fp): json.dump(self.dump_dict(expr), fp); the text
\* written is represented by the document it spells
JSONSyntax_dump_fp(d, sink) ==
    IF d.kind = "raise" THEN [raised |-> d.type, s |-> sink]
    ELSE [raised |-> "", s |-> Append(sink, d)]

\* parser.dump(expression, fp, **kw)
dump(parser, expr, sink, indent, unicode) ==
    IF parser.class = "JSONSyntax" THEN JSONSyntax_dump_fp(JSONSyntax_dumps(expr), sink)
    ELSE MolQLSyntax_dump_fp(expr, sink, indent, unicode)

\* MolQL.__init__(query, format)
MolQL_init_parser(parser, written, query) ==
    IF parser.kind = "raise" THEN Raise("ValueError")
    ELSE loads(parser, written, query)
MolQL_init(written, query, format) ==
    MolQL_init_parser(get_syntax(syntaxes, format), written, query)

\* MolQL.dumps(format)
MolQL_dumps_parser(parser, expr) ==
    IF parser.kind = "raise" THEN Raise("ValueError")
    ELSE dumps(parser, expr)
MolQL_dumps(expr, format) == MolQL_dumps_parser(get_syntax(syntaxes, format), expr)

\* MolQL.dump(fp, format, indent=indent)
MolQL_dump_parser(parser, expr, sink, indent, unicode) ==
    IF parser.kind = "raise" THEN [raised |-> "ValueError", s |-> sink]
    ELSE dump(parser, expr, sink, indent, unicode)
MolQL_dump(expr, sink, format, indent, unicode) ==
    MolQL_dump_parser(get_syntax(syntaxes, format), expr, sink, indent, unicode)

\* query.ChainSelector(ranges).accept_chain(chain), ranges being the query's
\* expression: any(chain.get_id() == r.chain_id for r in self.ranges) raises
\* TypeError for an Expression, a number or a boolean (not iterable) and
\* AttributeError for the first character of a string, and is False for ""
query_accept_chain(ranges) ==
    IF ranges.kind # "str" THEN Raise("TypeError")
    ELSE IF ranges.s # <<>> THEN Raise("AttributeError")
    ELSE BoolObj(FALSE)

\* a Structure object: built tells the one extract_to_structure has built
\* from the one it was given
Structure(built, models) == [kind |-> "Structure", built |-> built, models |-> models]

\* extract_to_structure(structure, query.ChainSelector(expression)): every
\* model is accepted (Select.accept_model) and accept_chain is called for its
\* first chain
extract_by_expression(struct, accepted) ==
    IF (\E m \in 1..Len(struct) : Len(struct[m].chains) > 0) /\ accepted.kind = "raise"
    THEN accepted
    ELSE Structure(TRUE, [m \in 1..Len(struct) |-> [struct[m] EXCEPT !.chains = <<>>]])

\* MolQL.__call__(structure)
MolQL_call(expr, struct) ==
    IF expr = NoneObj THEN Structure(FALSE, struct)
    ELSE extract_by_expression(struct, query_accept_chain(expr))

InitQuery(givens) ==
    /\ given \in givens
    /\ text = IF given.format = "json" THEN given.document
              ELSE WriteForm(given.form, given.sep)
    /\ op = "init"
    /\ symbols = registered_symbols
    /\ syntaxes = registered_syntaxes
    /\ registered = <<JSONSyntax, MolQLSyntax>>
    /\ fp = <<>>
    /\ request = Unset
    /\ resRanges = Unset
    /\ tree = Unset
    /\ structure = Unset
    /\ substructure = Unset
    /\ expression = Unset
    /\ outcome = Unset
    /\ yielded = Unset
    /\ invoked = Unset
    /\ earlier = Unset
    /\ dumped = Unset
    /\ reparsed = Unset
    /\ redumped = Unset

Query_init_loaded(r) ==
    /\ op' = IF r.kind = "raise" THEN r.type ELSE "constructed"
    /\ expression' = IF r.kind = "raise" THEN expression ELSE r

\* query = MolQL(text, format)
Query_init ==
    /\ op = "init"
    /\ \E format \in QueryFormats :
         /\ request' = [call |-> "MolQL", format |-> format]
         /\ Query_init_loaded(MolQL_init(given.format, text, format))
    /\ UNCHANGED <<given, text, resRanges, tree, structure, substructure,
                   symbols, earlier, outcome, yielded, invoked, dumped, reparsed, redumped,
                   fp, syntaxes, registered>>

\* s = query.dumps(format)
Dumps ==
    /\ op = "constructed"
    /\ \E format \in QueryFormats :
         /\ request' = [call |-> "dumps", format |-> format]
         /\ dumped' = [format |-> lower(format), out |-> MolQL_dumps(expression, format)]
    /\ op' = "dumped"
    /\ UNCHANGED <<given, text, resRanges, tree, structure, substructure,
                   symbols, earlier, expression, outcome, yielded, invoked, reparsed, redumped,
                   fp, syntaxes, registered>>

Indents == {PyNone, PyInt(0), PyInt(2)}

Dump_written(r) ==
    /\ fp' = r.s
    /\ op' = IF r.raised # "" THEN r.raised ELSE "written"

\* query.dump(fp, format) and query.dump(fp, format, indent=indent)
Dump ==
    /\ op = "constructed"
    /\ \E format \in QueryFormats, indent \in Indents :
         /\ request' = [call |-> "dump", format |-> format, indent |-> indent]
         /\ Dump_written(MolQL_dump(expression, fp, format, indent, given.format = "json"))
    /\ UNCHANGED <<given, text, resRanges, tree, structure, substructure,
                   symbols, earlier, expression, outcome, yielded, invoked, dumped, reparsed,
                   redumped, syntaxes, registered>>

\* again = MolQL(s, format)
Reload ==
    /\ op = "dumped"
    /\ dumped.out.kind # "raise"
    /\ reparsed' = MolQL_init(dumped.format,
                              IF dumped.format = "json" THEN dumped.out ELSE dumped.out.s,
                              dumped.format)
    /\ op' = "reloaded"
    /\ UNCHANGED <<given, text, resRanges, tree, structure, substructure,
                   symbols, earlier, expression, outcome, yielded, invoked, dumped, redumped,
                   facadeVars>>

\* again.dumps(format)
Redump ==
    /\ op = "reloaded"
    /\ reparsed.kind # "raise"
    /\ redumped' = MolQL_dumps(reparsed, dumped.format)
    /\ op' = "redumped"
    /\ UNCHANGED <<given, text, resRanges, tree, structure, substructure,
                   symbols, earlier, expression, outcome, yielded, invoked, dumped, reparsed,
                   facadeVars>>

Applied(r) ==
    /\ outcome' = r
    /\ invoked' = r.invoked
    /\ yielded' = <<>>
    /\ op' = IF r.status = "raised" THEN r.type ELSE "applied"

\* fragments = query.apply(structure)
Apply ==
    /\ op = "constructed"
    /\ structure' \in Structures
    /\ Applied(apply(symbols, expression))
    /\ UNCHANGED <<given, text, resRanges, tree, substructure,
                   symbols, earlier, expression, dumped, reparsed, redumped, facadeVars>>

\* (first, a pull that resumes where the pulls from an earlier sequence
\* stopped, as if both applications shared one generator)
Pulled_Resumes(run) ==
    IF Len(yielded) + (IF earlier = Unset THEN 0 ELSE Len(earlier.yielded)) < Len(run.yields)
    THEN /\ yielded' = Append(yielded,
                run.yields[Len(yielded) + (IF earlier = Unset THEN 0 ELSE Len(earlier.yielded)) + 1])
         /\ op' = op
    ELSE /\ yielded' = yielded
         /\ op' = IF run.raised = "" THEN "StopIteration" ELSE run.raised
Pulled(run) ==
    IF Len(yielded) < Len(run.yields)
    THEN /\ yielded' = Append(yielded, run.yields[Len(yielded) + 1])
         /\ op' = op
    ELSE /\ yielded' = yielded
         /\ op' = IF run.raised = "" THEN "StopIteration" ELSE run.raised

\* next(fragments)
Pull ==
    /\ op = "applied"
    /\ outcome.value.kind = "generator"
    /\ Pulled(atom_groups(structure, outcome.value.args))
    /\ UNCHANGED <<given, text, resRanges, tree, structure, substructure,
                   symbols, earlier, expression, outcome, invoked, dumped, reparsed, redumped,
                   facadeVars>>

\* again = query.apply(structure): the same query applied a second time to
\* the same structure, after the first sequence was pulled to its end,
\* part-way or not at all, or after the first apply raised
Reapply ==
    /\ outcome # Unset /\ earlier = Unset
    /\ op \notin {"init", "constructed"}
    /\ earlier' = [outcome |-> outcome, yielded |-> yielded, ended |-> op]
    /\ Applied(apply(symbols, expression))
    /\ UNCHANGED <<given, text, resRanges, tree, structure, substructure,
                   symbols, expression, dumped, reparsed, redumped, facadeVars>>

\* the tests handed to atom_groups when it is called directly
ModelTests == { NoneObj, Function({0}), Function({1}) }
ChainTests == { NoneObj, Function({<<"A">>}), Function({}) }
ResidueTests ==
    { NoneObj, Function({<<" ", 1, Blank>>, <<" ", 2, Blank>>, <<"W", 1, Blank>>}) }
AtomTests == { NoneObj, Function({<<"N">>}), Function({<<"C", "A">>, <<"H">>}) }
TestGivens ==
    { [call |-> "atom_groups", args |-> <<NoneObj, mt, ct, rt, at>>] :
        mt \in ModelTests, ct \in ChainTests, rt \in ResidueTests, at \in AtomTests }

InitAtomGroups ==
    /\ given \in TestGivens
    /\ structure \in Structures
    /\ op = "init"
    /\ symbols = registered_symbols
    /\ syntaxes = registered_syntaxes
    /\ registered = <<JSONSyntax, MolQLSyntax>>
    /\ fp = <<>>
    /\ request = Unset
    /\ text = Unset
    /\ resRanges = Unset
    /\ tree = Unset
    /\ substructure = Unset
    /\ expression = Unset
    /\ outcome = Unset
    /\ yielded = Unset
    /\ invoked = Unset
    /\ earlier = Unset
    /\ dumped = Unset
    /\ reparsed = Unset
    /\ redumped = Unset

\* fragments = atom_groups(StructureContext(query, structure), None, model_test,
\*                         chain_test, residue_test, atom_test)
Invoke ==
    /\ op = "init"
    /\ Applied(call_impl(symbols[atom_groups_name], given.args))
    /\ UNCHANGED <<given, text, resRanges, tree, structure, substructure,
                   symbols, earlier, expression, dumped, reparsed, redumped, facadeVars>>

NextAtomGroups == Invoke \/ Pull
SpecAtomGroups == InitAtomGroups /\ [][NextAtomGroups]_vars

MaxRegistered == 3    \* register_syntax calls in one run

\* syntaxes whose name() differs in letter case only, and others
SyntaxNames == {"json", "JSON", "Json", "molql", "MolQL", "auto"}
Syntaxes == { Syntax(class, name) : class \in {"JSONSyntax", "MolQLSyntax"},
                                    name \in SyntaxNames }

\* the module syntax.py as imported: _syntaxes = {}
InitRegistry ==
    /\ syntaxes = no_syntaxes
    /\ registered = <<>>
    /\ op = "init"
    /\ given = Unset
    /\ text = Unset
    /\ structure = Unset
    /\ symbols = registered_symbols
    /\ fp = Unset
    /\ request = Unset
    /\ resRanges = Unset
    /\ tree = Unset
    /\ substructure = Unset
    /\ expression = Unset
    /\ outcome = Unset
    /\ yielded = Unset
    /\ invoked = Unset
    /\ earlier = Unset
    /\ dumped = Unset
    /\ reparsed = Unset
    /\ redumped = Unset

\* syntax.register_syntax(syntax)
Register ==
    /\ Len(registered) < MaxRegistered
    /\ \E syntax \in Syntaxes :
         /\ syntaxes' = register_syntax(syntaxes, syntax)
         /\ registered' = Append(registered, syntax)
    /\ op' = "registered"
    /\ UNCHANGED <<given, text, structure, resRanges, tree, substructure, evalVars,
                   request, fp>>

NextRegistry == Register
SpecRegistry == InitRegistry /\ [][NextRegistry]_vars

\* the registry after the register_syntax calls of seq
RECURSIVE RegisterAll(_)
RegisterAll(seq) ==
    IF seq = <<>> THEN no_syntaxes
    ELSE register_syntax(RegisterAll(SubSeq(seq, 1, Len(seq) - 1)), seq[Len(seq)])

\* the registrations of the imports, alone or followed by that of a syntax
\* named auto
Registrations ==
    { <<JSONSyntax, MolQLSyntax>>,
      <<JSONSyntax, MolQLSyntax, Syntax("MolQLSyntax", "auto")>>,
      <<JSONSyntax, MolQLSyntax, Syntax("JSONSyntax", "Auto")>> }
FacadeGivens ==
    { g \in TokenGivens : Len(g.form.pos) = 1 /\ g.sep = <<" ">> }
      \cup { [format |-> "json", document |-> Document(version_0_1_0, n)] :
               n \in { NodeNoArgs(<<"f">>), Node(<<"f">>, List(<<StrObj(ALA)>>)),
                       StrObj(ALA) } }

InitFacade ==
    /\ given \in FacadeGivens
    /\ text = IF given.format = "json" THEN given.document
              ELSE WriteForm(given.form, given.sep)
    /\ registered \in Registrations
    /\ syntaxes = RegisterAll(registered)
    /\ op = "init"
    /\ symbols = registered_symbols
    /\ fp = <<>>
    /\ request = Unset
    /\ resRanges = Unset
    /\ tree = Unset
    /\ structure = Unset
    /\ substructure = Unset
    /\ expression = Unset
    /\ outcome = Unset
    /\ yielded = Unset
    /\ invoked = Unset
    /\ earlier = Unset
    /\ dumped = Unset
    /\ reparsed = Unset
    /\ redumped = Unset

NextFacade == Query_init \/ Dumps \/ Dump
SpecFacade == InitFacade /\ [][NextFacade]_vars

\* substructure = query(structure)
Query_call ==
    /\ op = "constructed"
    /\ \E s \in Structures :
         /\ request' = [call |-> "__call__", format |-> "", structure |-> s]
         /\ structure' = s
         /\ substructure' = MolQL_call(expression, s)
    /\ op' = IF substructure'.kind = "raise" THEN substructure'.type ELSE "called"
    /\ UNCHANGED <<given, text, resRanges, tree, symbols, earlier, expression, outcome, yielded,
                   invoked, dumped, reparsed, redumped, fp, syntaxes, registered>>

\* queries to call: JSON documents whose expression is null, a literal or a
\* node, and Lisp applications
CallGivens ==
    { [format |-> "json", document |-> Document(v, n)] :
        v \in Versions,
        n \in { NoneObj, StrObj(<<>>), StrObj(ALA), IntObj(1),
                NodeNoArgs(atom_groups_name), Node(<<"f">>, List(<<StrObj(ALA)>>)) } }
      \cup { g \in TokenGivens : Len(g.form.pos) = 1 }
InitCall == InitQuery(CallGivens)
NextCall == Query_init \/ Query_call
SpecCall == InitCall /\ [][NextCall]_vars

\* the selectors handed to extract_to_structure when it is called directly
Selectors ==
    { Dice_ChainSelector(c, b, e) :
        c \in { <<"A">>, <<"B">>, <<"C">> }, b \in {0, 1, 2}, e \in {1, 2, 10} }
      \cup { molql_ChainSelector(<<ExpectedRange(it)>>) :
               it \in { [chain |-> <<"A">>, start |-> NoResi, end |-> NoResi],
                        [chain |-> <<"B">>, start |-> Resi(1, <<>>), end |-> Resi(2, <<>>)] } }
      \cup { molql_ChainSelector(<<>>) }

InitExtract ==
    /\ given \in { [call |-> "extract_to_structure", select |-> sel] : sel \in Selectors }
    /\ structure \in Structures
    /\ op = "init"
    /\ symbols = Unset
    /\ syntaxes = Unset
    /\ registered = Unset
    /\ fp = Unset
    /\ request = Unset
    /\ text = Unset
    /\ resRanges = Unset
    /\ tree = Unset
    /\ substructure = Unset
    /\ expression = Unset
    /\ outcome = Unset
    /\ yielded = Unset
    /\ invoked = Unset
    /\ earlier = Unset
    /\ dumped = Unset
    /\ reparsed = Unset
    /\ redumped = Unset

\* substructure = extract_to_structure(structure, select)
Extract ==
    /\ op = "init"
    /\ substructure' = extract_to_structure(structure, given.select)
    /\ op' = "extracted"
    /\ UNCHANGED <<given, text, resRanges, tree, structure, evalVars, facadeVars>>

NextExtract == Extract
SpecExtract == InitExtract /\ [][NextExtract]_vars

InitLisp == InitQuery(LispGivens)
NextLisp == Query_init
SpecLisp == InitLisp /\ [][NextLisp]_vars

InitJSON == InitQuery(JsonGivens)
NextJSON == Query_init \/ Dumps
SpecJSON == InitJSON /\ [][NextJSON]_vars

InitTokens == InitQuery(TokenGivens)
SpecTokens == InitTokens /\ [][NextLisp]_vars

InitAny == InitQuery(LispGivens \cup JsonGivens)
InitDefects == InitQuery(DefectGivens)
SpecDefects == InitDefects /\ [][NextLisp]_vars

NextEval == Query_init \/ Apply
SpecEval == InitJSON /\ [][NextEval]_vars
NextDump == Query_init \/ Dump
SpecDump == InitAny /\ [][NextDump]_vars

SpecLispEval == InitLisp /\ [][NextEval]_vars
\* queries of at most one argument, in both syntaxes, for repeated
\* applications: each is applied to every structure and pulled any number
\* of times, twice over
ReapplyForms ==
    { App(h, <<>>, <<>>) : h \in Heads }
      \cup { App(h, <<a>>, <<>>) : h \in Heads, a \in ArgValues }
      \cup { App(h, <<>>, <<n>>) : h \in Heads, n \in NamedArgs }
ReapplyNodes ==
    { NodeNoArgs(h) : h \in Heads }
      \cup { Node(h, Dict(<<Item(StrObj(JsonKeys[k]), v)>>)) :
               h \in Heads, k \in 1..Len(JsonKeys), v \in JsonValues }
      \cup { Node(h, List(<<v>>)) : h \in Heads, v \in JsonValues }
ReapplyGivens ==
    { [format |-> "molql", form |-> f, sep |-> <<" ">>] : f \in ReapplyForms }
      \cup { [format |-> "json", document |-> Document(version_0_1_0, n)] : n \in ReapplyNodes }
InitReapply == InitQuery(ReapplyGivens)
NextReapply == Query_init \/ Apply \/ Pull \/ Reapply \/ Dumps \/ Dump
SpecReapply == InitReapply /\ [][NextReapply]_vars

\* the Lisp parser on applications written in any argument order
InitOrder ==
    /\ given \in OrderGivens
    /\ text = WriteApplication(given.head, given.items, given.sep)
    /\ op = "init"
    /\ symbols = registered_symbols
    /\ syntaxes = registered_syntaxes
    /\ registered = <<JSONSyntax, MolQLSyntax>>
    /\ fp = <<>>
    /\ request = Unset
    /\ resRanges = Unset
    /\ tree = Unset
    /\ structure = Unset
    /\ substructure = Unset
    /\ expression = Unset
    /\ outcome = Unset
    /\ yielded = Unset
    /\ invoked = Unset
    /\ earlier = Unset
    /\ dumped = Unset
    /\ reparsed = Unset
    /\ redumped = Unset
SpecOrder == InitOrder /\ [][NextLisp]_vars

NextQuery == Query_init \/ Apply \/ Pull \/ Dumps \/ Reload \/ Redump
SpecQuery == InitAny /\ [][NextQuery]_vars

(***************************************************************************)
(* Claims about the syntaxes and the evaluator.                            *)
(***************************************************************************)
\* Python's == on literals, lists and dicts, and the same comparison of
\* Expressions: equal heads, equal key sets, equal values under each key
IsNumber(a) == a.kind \in {"int", "float", "bool"}
NumberOf(a) ==
    IF a.kind = "int" THEN FloatObj(a.n, 0)
    ELSE IF a.kind = "bool" THEN FloatObj(IF a.b THEN 1 ELSE 0, 0)
    ELSE a
RECURSIVE py_eq(_, _)
items_eq(x, y) ==
    /\ Len(x) = Len(y)
    /\ \A i \in 1..Len(x) :
         \E j \in 1..Len(y) : x[i].key = y[j].key /\ py_eq(x[i].val, y[j].val)
py_eq(a, b) ==
    IF a.kind = "dict" /\ b.kind = "dict" THEN items_eq(a.items, b.items)
    ELSE IF a.kind = "list" /\ b.kind = "list"
    THEN /\ Len(a.items) = Len(b.items)
         /\ \A i \in 1..Len(a.items) : py_eq(a.items[i], b.items[i])
    ELSE IF a.kind = "Expression" /\ b.kind = "Expression"
    THEN a.head = b.head /\ items_eq(a.args, b.args)
    ELSE IF IsNumber(a) /\ IsNumber(b) THEN NumberOf(a) = NumberOf(b)
    ELSE a = b

RECURSIVE ExpectedExpression(_)
ExpectedArg(a) == IF a.kind = "lit" THEN a.value ELSE ExpectedExpression(a)
ExpectedExpression(f) ==
    Expression(f.head,
        [i \in 1..Len(f.pos) |-> Item(IntObj(i - 1), ExpectedArg(f.pos[i]))]
          \o [i \in 1..Len(f.named) |->
                Item(StrObj(f.named[i].label), ExpectedArg(f.named[i].arg))])

\* C10: parsing a Lisp application with p positional arguments followed by
\* named arguments yields an Expression whose head is the first token and
\* whose args hold exactly the integer keys 0..p-1, bound to the positional
\* arguments in appearance order, and each label bound to its named
\* argument; "(f)" yields empty args and a nested application a nested
\* Expression.
C10_LispParseAssignsKeys ==
    (op = "constructed" /\ given.format = "molql") =>
        expression = ExpectedExpression(given.form)

C10_Witness ==
    /\ op = "constructed" /\ given.format = "molql"
    /\ Len(given.form.pos) >= 1 /\ Len(given.form.named) >= 1
    /\ given.form.pos[1].kind = "app"
    /\ Len(expression.args) = 2
    /\ expression.args[1].key = IntObj(0)
    /\ expression.args[1].val.kind = "Expression"
    /\ expression.args[2].key.kind = "str"

\* C11: each whitespace-delimited literal token of a Lisp query becomes
\* exactly one argument, decoded at parse time: a token that is wholly a
\* float becomes a number, true/false in any letter case a boolean, and any
\* other bare token (including one that merely begins with digits, such as
\* 18A) a single string equal to the token text.
C11_EachTokenIsOneArgument ==
    (op = "constructed" /\ request.format = "molql") =>
        /\ expression.kind = "Expression"
        /\ Len(expression.args) = Len(given.form.pos)
        /\ \A i \in 1..Len(given.form.pos) :
             /\ i <= Len(expression.args)
             /\ expression.args[i].val = given.form.pos[i].value

IsLispDump ==
    /\ request # Unset /\ request.call = "dump" /\ lower(request.format) = "molql"
    /\ expression.kind = "Expression"

\* C12: dumping an Expression as Lisp emits every argument, positional ones
\* first by ascending index, then named ones with their label in stored
\* order, whether the argument is a literal or a nested application (so
\* that the text written reads back as the same head with the same keys in
\* the same order and the same values); with no indent the output is one
\* line without a trailing newline, and with an indent it is indented and
\* ends in a newline.
C12_LispDumpEmitsEveryArgument ==
    IsLispDump =>
        /\ op = "written"
        /\ MolQLSyntax_loads(fp).kind = "Expression"
        /\ py_eq(MolQLSyntax_loads(fp), expression)
        /\ Len(MolQLSyntax_loads(fp).args) = Len(expression.args)
        /\ \A i \in 1..Len(expression.args) :
             /\ i <= Len(MolQLSyntax_loads(fp).args)
             /\ py_eq(MolQLSyntax_loads(fp).args[i].key, expression.args[i].key)
        /\ request.indent = PyNone =>
             /\ \A i \in 1..Len(fp) : fp[i] # "\n"
             /\ fp[Len(fp)] = ")"
        /\ request.indent # PyNone =>
             /\ fp[Len(fp)] = "\n"
             /\ \A i \in 1..request.indent.v : fp[i] = " "

\* the document without its "source" member
DelSource(d) ==
    Dict(FilterSeq(d.items, [i \in 1..Len(d.items) |-> d.items[i].key # key_source]))

\* every node of the tree is an object with object-form args, if any
RECURSIVE ObjectFormArgs(_)
ObjectFormArgs(node) ==
    node.kind = "dict" =>
        (has_key(node.items, key_args) =>
            /\ get(node.items, key_args).kind = "dict"
            /\ \A i \in 1..Len(get(node.items, key_args).items) :
                 ObjectFormArgs(get(node.items, key_args).items[i].val))

\* no node of the tree has an "args" member without members
RECURSIVE NoEmptyArgs(_)
NoEmptyArgs(node) ==
    (node.kind = "dict" /\ has_key(node.items, key_args)) =>
        /\ Len(get(node.items, key_args).items) > 0
        /\ \A i \in 1..Len(get(node.items, key_args).items) :
             NoEmptyArgs(IF get(node.items, key_args).kind = "dict"
                         THEN get(node.items, key_args).items[i].val
                         ELSE get(node.items, key_args).items[i])

IsQueryDocument ==
    /\ given.format = "json"
    /\ has_key(given.document.items, key_expression)
    /\ get(given.document.items, key_expression).kind = "dict"
    /\ get(given.document.items, key_version) = version_0_1_0
    /\ ObjectFormArgs(get(given.document.items, key_expression))

DumpedAsJSON == op = "dumped" /\ dumped.format = "json"

\* C9 as stated: for any JSON query document (version "0.1.0") whose nodes
\* use object-form args, constructing a query from it and dumping it as
\* JSON yields a document equal to the input once "source" is removed from
\* both.
C9_JsonDumpEqualsDocument ==
    (DumpedAsJSON /\ IsQueryDocument) =>
        /\ dumped.out.kind = "dict"
        /\ py_eq(DelSource(dumped.out), DelSource(given.document))

\* C9 as amended: the same, for documents in which every node either has no
\* "args" member or has a non-empty object-form one.
C9_JsonDumpEqualsDocumentWithoutEmptyArgs ==
    ( /\ DumpedAsJSON /\ IsQueryDocument
      /\ NoEmptyArgs(get(given.document.items, key_expression)) ) =>
        /\ dumped.out.kind = "dict"
        /\ py_eq(DelSource(dumped.out), DelSource(given.document))

C9_Witness ==
    /\ DumpedAsJSON /\ IsQueryDocument
    /\ NoEmptyArgs(get(given.document.items, key_expression))
    /\ Len(expression.args) = 2
    /\ expression.args[1].val.kind = "Expression"
    /\ Len(expression.args[1].val.args) = 0
    /\ expression.args[2].val.kind = "Expression"
    /\ Len(expression.args[2].val.args) = 1
    /\ py_eq(DelSource(dumped.out), DelSource(given.document))

\* some node of the tree has a head that is not in the Symbol Registry
RECURSIVE HasUnknownHead(_)
HasUnknownHead(expr) ==
    \/ expr.head \notin DOMAIN symbols
    \/ \E i \in 1..Len(expr.args) :
         /\ expr.args[i].val.kind = "Expression"
         /\ HasUnknownHead(expr.args[i].val)

IsApplied == outcome # Unset /\ expression.kind = "Expression"

\* C1: when some node of the query's tree (the root or an argument at any
\* depth) has a head that is not in the Symbol Registry, apply fails with
\* the unknown-symbol error (the KeyError of get_symbol) and the caller
\* receives no fragment.
C1_UnknownSymbolFailsApply ==
    (IsApplied /\ HasUnknownHead(expression)) =>
        /\ outcome.status = "raised"
        /\ outcome.type = "KeyError" /\ outcome.at = "get_symbol"
        /\ yielded = <<>>

\* the positional keys of a node: its int keys and its numeral string keys
IsNumeral(key) ==
    key.kind = "str" /\ Len(key.s) > 0 /\ \A i \in 1..Len(key.s) : key.s[i] \in digits
IsPositional(key) == key.kind = "int" \/ IsNumeral(key)
PositionOf(key) == IF key.kind = "int" THEN key.n ELSE DecimalValue(key.s)
PositionalKeys(expr) ==
    { i \in 1..Len(expr.args) : IsPositional(expr.args[i].key) }
MalformedPositionalKeys(expr) ==
    { PositionOf(expr.args[i].key) : i \in PositionalKeys(expr) }
        # 0..(Cardinality(PositionalKeys(expr)) - 1)

\* C2: when the positional keys of a node are not exactly 0..n-1,
\* evaluating the node fails with the malformed-arguments error (the
\* KeyError of the positional lookup) and no symbol implementation has been
\* invoked.
C2_MalformedKeysFailBeforeAnyCall ==
    ( /\ IsApplied /\ expression.head \in DOMAIN symbols
      /\ MalformedPositionalKeys(expression) ) =>
        /\ outcome.status = "raised"
        /\ outcome.type = "KeyError" /\ outcome.at = "posargs"
        /\ invoked = <<>>

\* what applying expr to struct gives: the error raised, the literal
\* returned, or the whole run of the generator returned
Evaluation_applied(struct, r) ==
    IF r.status = "returned" /\ r.value.kind = "generator"
    THEN atom_groups(struct, r.value.args)
    ELSE r
Evaluation(expr, struct) == Evaluation_applied(struct, apply(symbols, expr))

IsSerialized ==
    /\ dumped # Unset /\ dumped.format \in DOMAIN registered_syntaxes
    /\ expression.kind = "Expression" /\ ~HasUnknownHead(expression)

\* C7: for a syntax that supports serialization and an Expression e built
\* from registered symbols, the query parsed from the serialization of e
\* evaluates fragment for fragment as e does on every structure, and no
\* argument of e is lost or re-keyed.
C7_ReparsedEvaluatesIdentically ==
    /\ IsSerialized => dumped.out.kind # "raise"
    /\ (IsSerialized /\ reparsed # Unset) =>
         /\ reparsed.kind = "Expression"
         /\ py_eq(reparsed, expression)
         /\ \A s \in Structures : Evaluation(reparsed, s) = Evaluation(expression, s)

\* C8: for one fixed syntax, serializing, parsing and serializing again
\* reproduces the first serialization exactly.
C8_SerializationIsIdempotent ==
    (redumped # Unset /\ dumped.format \in DOMAIN registered_syntaxes) =>
        redumped = dumped.out


\* the "args" member of the root node of the given JSON document
RootHasArgs ==
    /\ given.format = "json"
    /\ has_key(given.document.items, key_expression)
    /\ get(given.document.items, key_expression).kind = "dict"
    /\ has_key(get(given.document.items, key_expression).items, key_args)
RootArgs == get(get(given.document.items, key_expression).items, key_args)

RECURSIVE ObjectForm(_)
ObjectFormOfArgs(args) ==
    IF args.kind = "list"
    THEN Dict([i \in 1..Len(args.items) |->
                 Item(StrObj(str(i - 1)), ObjectForm(args.items[i]))])
    ELSE IF args.kind = "dict"
    THEN Dict([i \in 1..Len(args.items) |->
                 Item(args.items[i].key, ObjectForm(args.items[i].val))])
    ELSE args
ObjectForm(node) ==
    IF node.kind # "dict" THEN node
    ELSE Dict([i \in 1..Len(node.items) |->
                 IF node.items[i].key = key_args
                 THEN Item(key_args, ObjectFormOfArgs(node.items[i].val))
                 ELSE node.items[i]])
ObjectFormDocument(d) ==
    Dict([i \in 1..Len(d.items) |->
            IF d.items[i].key = key_expression
            THEN Item(key_expression, ObjectForm(d.items[i].val))
            ELSE d.items[i]])

RECURSIVE LacksHead(_)
LacksHeadInArgs(args) ==
    \/ /\ args.kind = "dict"
       /\ \E i \in 1..Len(args.items) : LacksHead(args.items[i].val)
    \/ /\ args.kind = "list"
       /\ \E i \in 1..Len(args.items) : LacksHead(args.items[i])
LacksHead(node) ==
    /\ node.kind = "dict"
    /\ \/ ~has_key(node.items, key_head)
       \/ /\ has_key(node.items, key_args)
          /\ LacksHeadInArgs(get(node.items, key_args))

IsMalformedDocument ==
    /\ given.format = "json"
    /\ \/ ~has_key(given.document.items, key_expression)
       \/ LacksHead(get(given.document.items, key_expression))

\* C14: parsing a JSON document in which any object node of the expression
\* tree, the root or an argument at any depth in array or object form, lacks
\* "head", or which lacks "expression", fails with the malformed-query error
\* (MolQLFormatError) and no Query is constructed.
C14_MissingHeadIsMalformedQuery ==
    ( /\ request # Unset /\ request.call = "MolQL" /\ lower(request.format) = "json"
      /\ IsMalformedDocument ) =>
        /\ op = "MolQLFormatError"
        /\ expression = Unset


IsGenerator ==
    /\ outcome # Unset /\ outcome.status = "returned"
    /\ outcome.value.kind = "generator"

\* C15: when structure.generator.atom-groups is evaluated without a
\* model_test on a structure that has several models, the atom of every
\* yielded fragment belongs to the first model.
C15_DefaultYieldsFirstModelOnly ==
    ( /\ IsGenerator /\ Bind(outcome.value.args).model_test = NoneObj
      /\ Len(structure) > 1 ) =>
        \A i \in 1..Len(yielded) : \A j \in 1..Len(yielded[i]) : yielded[i][j].model = 1


\* the atoms of the structure whose model, chain, residue and the atom
\* itself pass every test that was supplied
Passes(test, id) == test = NoneObj \/ id \in test.accepts
PassingAtoms(struct, b) ==
    { ref \in UNION { UNION { UNION {
          { AtomRef(m, c, r, a) : a \in 1..Len(struct[m].chains[c].residues[r].atoms) } :
              r \in 1..Len(struct[m].chains[c].residues) } :
              c \in 1..Len(struct[m].chains) } :
              m \in 1..Len(struct) } :
        /\ Passes(b.model_test, struct[ref.model].id)
        /\ Passes(b.chain_test, struct[ref.model].chains[ref.chain].id)
        /\ Passes(b.residue_test,
                  residue_id(struct[ref.model].chains[ref.chain].residues[ref.residue]))
        /\ Passes(b.atom_test,
                  struct[ref.model].chains[ref.chain].residues[ref.residue]
                      .atoms[ref.atom].name) }

\* document order: models, then chains, then residues, then atoms
Before(x, y) ==
    \/ x.model < y.model
    \/ x.model = y.model /\ x.chain < y.chain
    \/ x.model = y.model /\ x.chain = y.chain /\ x.residue < y.residue
    \/ x.model = y.model /\ x.chain = y.chain /\ x.residue = y.residue /\ x.atom < y.atom

RegisteredAs(name) ==
    { i \in 1..Len(registered) : lower(registered[i].name) = lower(name) }
Latest(I) == CHOOSE i \in I : \A j \in I : j <= i

\* C17: after any sequence of register_syntax calls, get_syntax(name)
\* returns the syntax most recently registered under a name equal to name
\* ignoring letter case, get_syntaxes() holds exactly one name per distinct
\* case-insensitive registered name, a call leaves the entries under all
\* other names as they were (each name still has its own latest syntax),
\* and registering the latest syntax again gives the same registry.
C17_RegistryKeepsLatestPerName ==
    op = "registered" =>
        /\ \A name \in SyntaxNames :
             RegisteredAs(name) # {} =>
                 get_syntax(syntaxes, name) = registered[Latest(RegisteredAs(name))]
        /\ get_syntaxes(syntaxes) = { lower(registered[i].name) : i \in 1..Len(registered) }
        /\ register_syntax(syntaxes, registered[Len(registered)]) = syntaxes

C17_Witness ==
    /\ op = "registered" /\ Len(registered) = 3
    /\ registered[1] = Syntax("JSONSyntax", "json")
    /\ registered[2] = Syntax("MolQLSyntax", "molql")
    /\ registered[3] = Syntax("MolQLSyntax", "JSON")
    /\ get_syntax(syntaxes, "Json") = registered[3]
    /\ get_syntax(syntaxes, "MolQL") = registered[2]
    /\ get_syntaxes(syntaxes) = {"json", "molql"}


\* the last call named a format under which no syntax is registered
IsUnsupported == request # Unset /\ lower(request.format) \notin get_syntaxes(syntaxes)

\* C18: constructing a Query, or calling dump or dumps on one, with a format
\* name that has no registered syntax (the default "auto" included, when no
\* syntax of that name is registered) fails with the unsupported-format
\* error (the ValueError of the facade); no expression comes of the text,
\* nothing is written to the sink, and the registry and the Query's
\* expression are as they were.
C18_UnsupportedFormatFails ==
    IsUnsupported =>
        /\ request.call = "MolQL" => op = "ValueError" /\ expression = Unset
        /\ request.call = "dumps" => dumped.out = Raise("ValueError")
        /\ request.call = "dump" => op = "ValueError" /\ fp = <<>>
        /\ request.call \in {"dump", "dumps"} =>
             expression = IF given.format = "json" THEN JSONSyntax_loads(text)
                          ELSE MolQLSyntax_loads(text)
        /\ syntaxes = RegisterAll(registered)
        /\ registered \in Registrations

C18_Witness ==
    /\ IsUnsupported /\ request.call = "dump" /\ request.format = "auto"
    /\ request.indent = PyInt(2)
    /\ expression.kind = "Expression" /\ Len(expression.args) = 1
    /\ op = "ValueError" /\ fp = <<>>


\* C19: calling a Query on a structure never mutates the source structure
\* (after the call it is the structure that was passed, models, chains,
\* residues and atoms in the same order), and the result is a newly built
\* structure.
C19_CallBuildsNewStructure ==
    (request # Unset /\ request.call = "__call__") =>
        /\ structure = request.structure
        /\ substructure.kind = "Structure"
        /\ substructure.built


\* the atoms of a structure in its own order, each with the model, chain and
\* residue it is under
AtomsOf(struct) ==
    Flatten([m \in 1..Len(struct) |->
      Flatten([c \in 1..Len(struct[m].chains) |->
        Flatten([r \in 1..Len(struct[m].chains[c].residues) |->
          [a \in 1..Len(struct[m].chains[c].residues[r].atoms) |->
             [model |-> struct[m], chain |-> struct[m].chains[c],
              residue |-> struct[m].chains[c].residues[r],
              atom |-> struct[m].chains[c].residues[r].atoms[a]]]])])])
PathOf(p) == <<p.model.id, p.chain.id, residue_id(p.residue), p.atom.name>>
Paths(ps) == [i \in 1..Len(ps) |-> PathOf(ps[i])]
AcceptedBy(select, p) ==
    /\ accept_model(select, p.model)
    /\ accept_chain(select, p.chain)
    /\ accept_residue(select, p.chain, p.residue)
    /\ accept_atom(select, p.atom)

\* the models, chains and residues of the result are accepted ones
NothingRejected(select, result) ==
    \A m \in 1..Len(result) :
        /\ accept_model(select, result[m])
        /\ \A c \in 1..Len(result[m].chains) :
             /\ accept_chain(select, result[m].chains[c])
             /\ \A r \in 1..Len(result[m].chains[c].residues) :
                  accept_residue(select, result[m].chains[c],
                                 result[m].chains[c].residues[r])

\* C20: extract_to_structure(structure, select) returns a structure holding
\* exactly the atoms whose model, chain, residue and atom are each accepted
\* by select, under the same model, chain and residue ids and in the
\* source's order; nothing rejected at any level, and nothing beneath a
\* rejected model, chain or residue, appears in the result.
C20_ExtractKeepsAcceptedAtoms ==
    op = "extracted" =>
        /\ Paths(AtomsOf(substructure))
             = Paths(FilterSeq(AtomsOf(structure),
                        [i \in 1..Len(AtomsOf(structure)) |->
                            AcceptedBy(given.select, AtomsOf(structure)[i])]))
        /\ NothingRejected(given.select, substructure)

C20_Witness ==
    /\ op = "extracted" /\ Len(structure) = 2 /\ Len(structure[1].chains) = 2
    /\ given.select = Dice_ChainSelector(<<"A">>, 1, 2)
    /\ Paths(AtomsOf(substructure))
         = << <<0, <<"A">>, <<" ", 1, Blank>>, <<"N">>>>,
              <<0, <<"A">>, <<" ", 1, Blank>>, <<"C", "A">>>>,
              <<0, <<"A">>, <<" ", 2, <<"A">>>>, <<"C", "A">>>> >>

\* an operand whose evaluation fails at once: an Expression whose head is
\* not in the Symbol Registry
OperandFails(v) == v.kind = "Expression" /\ v.head \notin DOMAIN symbols
FailingPositional(expr) ==
    { i \in 1..Len(expr.args) : expr.args[i].key.kind = "int" /\ OperandFails(expr.args[i].val) }
FailingNamed(expr) ==
    { i \in 1..Len(expr.args) :
        /\ expr.args[i].key.kind = "str" /\ ~IsNumeral(expr.args[i].key)
        /\ OperandFails(expr.args[i].val) }

\* C21: within the evaluation of one node the positional operands are
\* evaluated first, in ascending index order, and the named operands after
\* them in stored order; so when a positional and a named operand of a
\* node with a registered head both fail, the evaluation ends in the
\* failure of the positional operand (here the unknown-symbol error of its
\* head) and no implementation has been invoked.
C21_PositionalOperandFailsFirst ==
    ( /\ IsApplied /\ expression.head \in DOMAIN symbols
      /\ FailingPositional(expression) # {} /\ FailingNamed(expression) # {} ) =>
        /\ outcome.status = "raised"
        /\ outcome.type = "KeyError" /\ outcome.at = "get_symbol"
        /\ invoked = <<>>

\* the operands of a node: all literals, the positional ones in index order
\* and the named ones in stored order
AllLiteral(expr) == \A i \in 1..Len(expr.args) : expr.args[i].val.kind # "Expression"
PositionalValues(expr) ==
    [n \in 1..Cardinality(PositionalKeys(expr)) |->
       expr.args[CHOOSE i \in PositionalKeys(expr) : PositionOf(expr.args[i].key) = n - 1].val]
NamedItems(expr) ==
    FilterSeq(expr.args, [i \in 1..Len(expr.args) |-> ~IsPositional(expr.args[i].key)])

\* C22: a node with a registered head, positional keys 0..n-1 and named
\* keys L, all operands literals, evaluates by one single invocation of the
\* implementation, which receives n positional values, the operands 0..n-1
\* unchanged and in index order, the last one included, and one named value
\* per label in L.
C22_InvokedOnceWithAllOperands ==
    ( /\ IsApplied /\ expression.head \in DOMAIN symbols
      /\ ~MalformedPositionalKeys(expression) /\ AllLiteral(expression) ) =>
        /\ outcome.status = "returned"
        /\ invoked = <<[impl |-> symbols[expression.head],
                        args |-> PositionalValues(expression),
                        kwargs |-> NamedItems(expression)]>>

\* a generator-class head stands as an argument of some node of the tree
RECURSIVE NestsGenerator(_)
NestsGenerator(expr) ==
    \E i \in 1..Len(expr.args) :
        /\ expr.args[i].val.kind = "Expression"
        /\ \/ expr.args[i].val.head = atom_groups_name
           \/ NestsGenerator(expr.args[i].val)

\* C23: evaluating a query in which structure.generator.atom-groups stands
\* as a positional or named argument of another node fails, and no symbol
\* implementation is invoked with the fragment sequence of a nested
\* generator among its operands.
C23_NestedGeneratorFails ==
    (IsApplied /\ NestsGenerator(expression)) =>
        /\ outcome.status = "raised"
        /\ \A k \in 1..Len(invoked) :
             \A j \in 1..Len(invoked[k].args) : invoked[k].args[j].kind # "generator"

\* the errors of parsing a query text
ParseErrors == {"MolQLFormatError", "ParseException", "ParseSyntaxException"}

\* C24: for a constructed Query the call apply(structure) itself returns a
\* fragment sequence and raises nothing: an evaluation error (unknown
\* symbol, malformed arguments, a failure inside an implementation) is
\* raised only by a later pull from that sequence, and no parse error is
\* raised by apply.
C24_ApplyReturnsBeforeAnyError ==
    IsApplied =>
        /\ outcome.status = "returned"
        /\ outcome.value.kind = "generator"
        /\ op \notin ParseErrors

\* two sequences of pulled fragments agree as far as both go
AgreeSoFar(a, b) == \A i \in 1..Len(a) : i <= Len(b) => a[i] = b[i]

PositionalAfterNamed(items) ==
    \E i, j \in 1..Len(items) : i < j /\ IsNamed(items[i]) /\ ~IsNamed(items[j])
IntKeys(expr) == { expr.args[i].key.n : i \in { j \in 1..Len(expr.args) : expr.args[j].key.kind = "int" } }
Positionals(items) == { i \in 1..Len(items) : ~IsNamed(items[i]) }
ParsedAsLisp == op # "init" /\ lower(request.format) = "molql" /\ "items" \in DOMAIN given

\* C26: the Lisp parser rejects every application in which a positional
\* argument follows a named one, such as (f :a 1 2): the constructor ends
\* in pyparsing's ParseSyntaxException and no Expression is produced; so in every
\* Expression it does produce the integer keys are exactly 0..p-1, p the
\* number of positional arguments written, however many named arguments
\* there are.
C26_PositionalAfterNamedIsRejected ==
    ParsedAsLisp =>
        /\ PositionalAfterNamed(given.items) =>
              /\ op = "ParseSyntaxException"
              /\ expression = Unset
        /\ op = "constructed" =>
              /\ expression.kind = "Expression"
              /\ IntKeys(expression) = 0..(Cardinality(Positionals(given.items)) - 1)
              /\ Len(expression.args) >= Cardinality(Positionals(given.items))

\* (f :ab 1 ALA) and the like: a named argument, then a positional one,
\* rejected
C26_Witness ==
    /\ ParsedAsLisp /\ Len(given.items) >= 2
    /\ IsNamed(given.items[1]) /\ ~IsNamed(given.items[2])
    /\ op = "ParseSyntaxException" /\ expression = Unset

=============================================================================
